---------------------------- MODULE Spec2Model ----------------------------
(***************************************************************************)
(* Plugin resolution and command aliasing of mistral_plus_plus:            *)
(*   vibe/cli/commands.py           CommandRegistry                        *)
(*   vibe/core/plugins/manager.py   PluginManager                          *)
(*   vibe/core/plugins/models.py    the data model                         *)
(* Strings are TLA+ strings; Len, \o and SubSeq act on them as Python's    *)
(* len, + and slicing do.  A Python dict is a sequence of [key, val]       *)
(* records in insertion order.                                             *)
(***************************************************************************)
EXTENDS Integers, Sequences, FiniteSets, TLC

VARIABLES
    commands,          \* CommandRegistry.commands: the built-ins kept
    _alias_map,        \* CommandRegistry._alias_map: alias -> built-in name
    _plugin_commands,  \* CommandRegistry._plugin_commands: alias -> PluginCommand
    _installed,        \* PluginManager._installed: name -> InstalledPlugin
    _marketplaces,     \* PluginManager._marketplaces: url -> Marketplace
    config_file,       \* <home>/plugins.json: the document last written, or NoFile
    plugins_dir,       \* <home>/plugins: directory name -> the checkout in it
    command_files,     \* <home>/commands: file name -> the prompt written to it
    last,              \* the last call made, its arguments and what it returned
    peer               \* a second PluginManager over the same home directory, in
                       \* another thread or process: what it holds in memory
                       \* and the git command it is running; None until
                       \* constructed

registry == <<commands, _alias_map, _plugin_commands>>

store == <<_installed, _marketplaces, config_file, plugins_dir, command_files>>

vars == <<registry, store, last, peer>>

\* Python's None, where a record (a command, a plugin, a manifest) may stand
None == [none |-> TRUE]

-----------------------------------------------------------------------------
(* Python dict: insertion-ordered, one entry per key.                      *)

DictKeys(d) == {d[i].key : i \in DOMAIN d}

DictHas(d, k) == k \in DictKeys(d)

DictGet(d, k) ==
    IF DictHas(d, k) THEN d[CHOOSE i \in DOMAIN d : d[i].key = k].val ELSE None

\* d[k] = v: an existing key keeps its position, a new key goes last
DictSet(d, k, v) ==
    IF DictHas(d, k)
    THEN [i \in DOMAIN d |-> IF d[i].key = k THEN [key |-> k, val |-> v] ELSE d[i]]
    ELSE Append(d, [key |-> k, val |-> v])

\* del d[k]
DictDel(d, k) == SelectSeq(d, LAMBDA e : e.key # k)

\* list(d.values())
DictValues(d) == [i \in DOMAIN d |-> d[i].val]

-----------------------------------------------------------------------------
(* Python str methods used by the registry.                                *)

IsSpace(c) == c \in {" ", "\t"}

LowerCh(c) ==
    CASE c = "A" -> "a" [] c = "B" -> "b" [] c = "C" -> "c" [] c = "D" -> "d"
      [] c = "E" -> "e" [] c = "F" -> "f" [] c = "G" -> "g" [] c = "H" -> "h"
      [] c = "I" -> "i" [] c = "J" -> "j" [] c = "K" -> "k" [] c = "L" -> "l"
      [] c = "M" -> "m" [] c = "N" -> "n" [] c = "O" -> "o" [] c = "P" -> "p"
      [] c = "Q" -> "q" [] c = "R" -> "r" [] c = "S" -> "s" [] c = "T" -> "t"
      [] c = "U" -> "u" [] c = "V" -> "v" [] c = "W" -> "w" [] c = "X" -> "x"
      [] c = "Y" -> "y" [] c = "Z" -> "z" [] OTHER -> c

RECURSIVE Lower(_)
Lower(s) ==
    IF s = "" THEN "" ELSE LowerCh(SubSeq(s, 1, 1)) \o Lower(SubSeq(s, 2, Len(s)))

RECURSIVE LStrip(_)
LStrip(s) ==
    IF s # "" /\ IsSpace(SubSeq(s, 1, 1)) THEN LStrip(SubSeq(s, 2, Len(s))) ELSE s

RECURSIVE RStrip(_)
RStrip(s) ==
    IF s # "" /\ IsSpace(SubSeq(s, Len(s), Len(s)))
    THEN RStrip(SubSeq(s, 1, Len(s) - 1)) ELSE s

Strip(s) == RStrip(LStrip(s))

RECURSIVE TokenEnd(_, _)
\* the index of the last character of the run of non-blanks that starts s
TokenEnd(s, i) ==
    IF i < Len(s) /\ ~IsSpace(SubSeq(s, i + 1, i + 1)) THEN TokenEnd(s, i + 1) ELSE i

\* s.split(maxsplit=1): <<>>, <<token>> or <<token, rest>>
SplitMax1(s) ==
    LET t == LStrip(s)
        e == TokenEnd(t, 0)
        rest == LStrip(SubSeq(t, e + 1, Len(t)))
    IN  IF t = "" THEN <<>>
        ELSE IF rest = "" THEN <<SubSeq(t, 1, e)>>
        ELSE <<SubSeq(t, 1, e), rest>>

StartsWith(s, p) == Len(s) >= Len(p) /\ SubSeq(s, 1, Len(p)) = p

EndsWith(s, p) == Len(s) >= Len(p) /\ SubSeq(s, Len(s) - Len(p) + 1, Len(s)) = p

\* c in s, for a one-character c
Contains(s, c) == \E i \in 1..Len(s) : SubSeq(s, i, i) = c

RECURSIVE RStripSlash(_)
\* s.rstrip("/")
RStripSlash(s) ==
    IF s # "" /\ SubSeq(s, Len(s), Len(s)) = "/"
    THEN RStripSlash(SubSeq(s, 1, Len(s) - 1)) ELSE s

\* s.split("/")[-1]
LastSegment(s) ==
    LET cuts == {i \in 1..Len(s) : SubSeq(s, i, i) = "/"}
        from == IF cuts = {} THEN 0 ELSE CHOOSE i \in cuts : \A j \in cuts : j <= i
    IN  SubSeq(s, from + 1, Len(s))

-----------------------------------------------------------------------------
(* CommandRegistry                                                         *)

BuiltinCommands == <<
    [key |-> "help",     val |-> [aliases |-> {"/help", "/h"},
                                  description |-> "Show help message"]],
    [key |-> "status",   val |-> [aliases |-> {"/status", "/stats"},
                                  description |-> "Display agent statistics"]],
    [key |-> "config",   val |-> [aliases |-> {"/config", "/cfg", "/theme", "/model"},
                                  description |-> "Edit config settings"]],
    [key |-> "reload",   val |-> [aliases |-> {"/reload", "/r"},
                                  description |-> "Reload configuration from disk"]],
    [key |-> "clear",    val |-> [aliases |-> {"/clear", "/reset"},
                                  description |-> "Clear conversation history"]],
    [key |-> "log",      val |-> [aliases |-> {"/log", "/logpath"},
                                  description |-> "Show path to current interaction log file"]],
    [key |-> "compact",  val |-> [aliases |-> {"/compact", "/summarize"},
                                  description |-> "Compact conversation history by summarizing"]],
    [key |-> "plugin",   val |-> [aliases |-> {"/plugin", "/plugins"},
                                  description |-> "Manage plugins (install, list, remove)",
                                  subcommands |-> <<
        [key |-> "install",     val |-> "Install a plugin from GitHub or marketplace"],
        [key |-> "remove",      val |-> "Remove an installed plugin"],
        [key |-> "list",        val |-> "List installed plugins"],
        [key |-> "enable",      val |-> "Enable a disabled plugin"],
        [key |-> "disable",     val |-> "Disable a plugin"],
        [key |-> "marketplace", val |-> "Manage plugin marketplaces"] >>]],
    [key |-> "subagent", val |-> [aliases |-> {"/subagent", "/subagents"},
                                  description |-> "Run a plugin subagent prompt"]],
    [key |-> "exit",     val |-> [aliases |-> {"/exit", "/quit", "/q"},
                                  description |-> "Exit the application"]] >>

\* self.commands.pop(command, None) for each excluded command
PopExcluded(cmds, excluded) ==
    SelectSeq(cmds, LAMBDA e : e.key \notin excluded)

\* the alias index built from the built-ins before the excluded are popped
BuildAliasMap_before_pop(cmds) ==
    [a \in UNION {BuiltinCommands[i].val.aliases : i \in DOMAIN BuiltinCommands} |->
        LET owners == {i \in DOMAIN BuiltinCommands : a \in BuiltinCommands[i].val.aliases}
        IN  BuiltinCommands[CHOOSE i \in owners : \A j \in owners : j <= i].key]

\* the alias index built in __init__: a later command's alias overwrites
BuildAliasMap(cmds) ==
    [a \in UNION {cmds[i].val.aliases : i \in DOMAIN cmds} |->
        LET owners == {i \in DOMAIN cmds : a \in cmds[i].val.aliases}
        IN  cmds[CHOOSE i \in owners : \A j \in owners : j <= i].key]

PluginCommand(name, plugin_name, description, prompt_file) ==
    [name |-> name, plugin_name |-> plugin_name,
     description |-> description, prompt_file |-> prompt_file]

full_alias(cmd) == "/" \o cmd.plugin_name \o ":" \o cmd.name

short_alias(cmd) == "/" \o cmd.name

\* register_plugin_command without the look at the built-in alias index
register_plugin_command_shadowing(pc, am, cmd) ==
    LET pc1 == DictSet(pc, full_alias(cmd), cmd)
    IN  IF ~DictHas(pc1, short_alias(cmd))
        THEN DictSet(pc1, short_alias(cmd), cmd)
        ELSE pc1

\* register_plugin_command where a later command takes a short alias over
register_plugin_command_last_wins(pc, am, cmd) ==
    LET pc1 == DictSet(pc, full_alias(cmd), cmd)
    IN  IF short_alias(cmd) \notin DOMAIN am
        THEN DictSet(pc1, short_alias(cmd), cmd)
        ELSE pc1

register_plugin_command(pc, am, cmd) ==
    LET pc1 == DictSet(pc, full_alias(cmd), cmd)
    IN  IF short_alias(cmd) \notin DOMAIN am /\ ~DictHas(pc1, short_alias(cmd))
        THEN DictSet(pc1, short_alias(cmd), cmd)
        ELSE pc1

RECURSIVE RegisterAll(_, _, _)
RegisterAll(pc, am, cmds) ==
    IF cmds = <<>> THEN pc
    ELSE RegisterAll(register_plugin_command(pc, am, Head(cmds)), am, Tail(cmds))

\* set_plugin_commands that forgets to clear the table
Clear_forgotten(pc) == pc

\* self._plugin_commands.clear()
Clear(pc) == <<>>

set_plugin_commands(pc, am, cmds) == RegisterAll(Clear(pc), am, cmds)

\* find_command that matches the token with its case unchanged
find_command_case_sensitive(cmds, am, user_input) ==
    LET parts == SplitMax1(Strip(user_input))
        base_cmd == IF parts # <<>> THEN parts[1] ELSE ""
    IN  IF base_cmd \in DOMAIN am /\ am[base_cmd] # ""
        THEN DictGet(cmds, am[base_cmd]) ELSE None

find_command(cmds, am, user_input) ==
    LET parts == SplitMax1(Strip(Lower(user_input)))
        base_cmd == IF parts # <<>> THEN parts[1] ELSE ""
    IN  IF base_cmd \in DOMAIN am /\ am[base_cmd] # ""
        THEN DictGet(cmds, am[base_cmd]) ELSE None

find_plugin_command(pc, user_input) ==
    LET parts == SplitMax1(Strip(user_input))
        base_cmd == IF parts # <<>> THEN Lower(parts[1]) ELSE ""
    IN  DictGet(pc, base_cmd)

\* sorted(command.aliases): the built-in aliases in code point order
sorted(aliases) ==
    LET order == << "/cfg", "/clear", "/compact", "/config", "/exit", "/h", "/help",
                    "/log", "/logpath", "/model", "/plugin", "/plugins", "/q", "/quit",
                    "/r", "/reload", "/reset", "/stats", "/status", "/subagent",
                    "/subagents", "/summarize", "/theme" >>
    IN  SelectSeq(order, LAMBDA a : a \in aliases)

\* the (alias, description) pairs: every alias of every built-in, then the
\* plugin aliases that are not an alias listed before
completion_entries(cmds, pc) ==
    LET RECURSIVE Builtins(_)
        Builtins(rest) ==
            IF rest = <<>> THEN <<>>
            ELSE [i \in DOMAIN sorted(Head(rest).val.aliases) |->
                     <<sorted(Head(rest).val.aliases)[i], Head(rest).val.description>>]
                 \o Builtins(Tail(rest))
        RECURSIVE Plugins(_, _)
        Plugins(entries, rest) ==
            IF rest = <<>> THEN entries
            ELSE Plugins(IF \E i \in DOMAIN entries : entries[i][1] = Head(rest).key
                         THEN entries
                         ELSE Append(entries, <<Head(rest).key, Head(rest).val.description>>),
                         Tail(rest))
    IN  Plugins(Builtins(cmds), pc)

\* the lines get_help_text joins with a newline; the backquote of the
\* source is written ' here, a string of this language cannot hold one
get_help_text(cmds, pc) ==
    LET RECURSIVE Join(_)
        Join(aliases) ==
            IF aliases = <<>> THEN ""
            ELSE "'" \o Head(aliases) \o "'"
                 \o (IF Tail(aliases) = <<>> THEN "" ELSE ", " \o Join(Tail(aliases)))
        RECURSIVE Builtins(_)
        Builtins(rest) ==
            IF rest = <<>> THEN <<>>
            ELSE LET cmd == Head(rest).val
                     subs == IF "subcommands" \in DOMAIN cmd THEN cmd.subcommands ELSE <<>>
                 IN  << "- " \o Join(sorted(cmd.aliases)) \o ": " \o cmd.description >>
                     \o [i \in DOMAIN subs |->
                            "  - '" \o subs[i].key \o "': " \o subs[i].val]
                     \o Builtins(Tail(rest))
        RECURSIVE Plugins(_, _)
        Plugins(rest, seen) ==
            IF rest = <<>> THEN <<>>
            ELSE LET cmd == Head(rest).val
                 IN  IF cmd.name \notin seen
                     THEN << "- '/" \o cmd.plugin_name \o ":" \o cmd.name \o "': "
                                 \o cmd.description >>
                          \o Plugins(Tail(rest), seen \cup {cmd.name})
                     ELSE Plugins(Tail(rest), seen)
    IN  << "### Keyboard Shortcuts", "",
           "- 'Enter' Submit message",
           "- 'Ctrl+J' / 'Shift+Enter' Insert newline",
           "- 'Escape' Interrupt agent or close dialogs",
           "- 'Ctrl+C' Quit (or clear input if text present)",
           "- 'Ctrl+O' Toggle tool output view",
           "- 'Ctrl+T' Toggle todo view",
           "- 'Shift+Tab' Toggle auto-approve mode",
           "",
           "### Special Features", "",
           "- '!<command>' Execute bash command directly",
           "- '@path/to/file/' Autocompletes file paths",
           "",
           "### Commands", "" >>
        \o Builtins(cmds)
        \o (IF pc # <<>>
            THEN << "", "### Plugin Commands", "" >> \o Plugins(pc, {})
            ELSE <<>>)

-----------------------------------------------------------------------------
(* The registry under any sequence of register_plugin_command and          *)
(* set_plugin_commands calls.                                              *)

MaxAliases == 4    \* register_plugin_command is called while the table is smaller
MaxSet == 2        \* the longest list handed to set_plugin_commands

\* excluded_commands of __init__: nothing, or a built-in and an unknown name
ExcludedChoices == {{}, {"status", "nope"}}

\* "status" is a built-in alias, "/a:c" is the short alias of one command and
\* the qualified alias of another, and plugin a has two commands named c
CmdUniverse ==
    {PluginCommand(n, p, "d", "p1.md") : n \in {"status", "c", "a:c"}, p \in {"a", "b"}}
        \cup {PluginCommand("c", "a", "d", "p2.md")}

CmdSeqs == UNION {[1..n -> CmdUniverse] : n \in 0..MaxSet}

\* a call: its name, arguments and result, and the git commands it ran
CallRan(op, arg, ret, ran) == [op |-> op, arg |-> arg, ret |-> ret, ran |-> ran]

Call(op, arg, ret) == CallRan(op, arg, ret, <<>>)

\* a call that raised
Error(kind) == [error |-> kind]

\* PluginManager.__init__ with no plugins.json: _load_config returns at once
StoreNew ==
    /\ _installed = <<>>
    /\ _marketplaces = <<>>
    /\ config_file = [absent |-> TRUE]
    /\ plugins_dir = <<>>
    /\ command_files = <<>>

\* CommandRegistry.__init__: the built-ins kept and their alias index
RegistryNew(choices) ==
    \E excluded \in choices :
        /\ commands = PopExcluded(BuiltinCommands, excluded)
        /\ _alias_map = BuildAliasMap(PopExcluded(BuiltinCommands, excluded))

RegistryInit ==
    /\ RegistryNew(ExcludedChoices)
    /\ _plugin_commands = <<>>
    /\ last = Call("__init__", None, None)
    /\ StoreNew
    /\ peer = None

RegisterPluginCommand(cmd) ==
    /\ Len(_plugin_commands) < MaxAliases
    /\ _plugin_commands' = register_plugin_command(_plugin_commands, _alias_map, cmd)
    /\ last' = Call("register_plugin_command", cmd, None)
    /\ UNCHANGED <<commands, _alias_map, store, peer>>

SetPluginCommands(cmds) ==
    /\ _plugin_commands' = set_plugin_commands(_plugin_commands, _alias_map, cmds)
    /\ last' = Call("set_plugin_commands", cmds, None)
    /\ UNCHANGED <<commands, _alias_map, store, peer>>

RegistryNext ==
    \/ \E cmd \in CmdUniverse : RegisterPluginCommand(cmd)
    \/ \E cmds \in CmdSeqs : SetPluginCommands(cmds)

RegistrySpec == RegistryInit /\ [][RegistryNext]_vars

-----------------------------------------------------------------------------
(* Lookup of a raw input line in a registry that holds plugin commands.    *)

\* plugin commands with upper-case letters in the command and the plugin name
LookupCmds ==
    {PluginCommand(n, p, "d", "p1.md") : n \in {"status", "c", "C"}, p \in {"a", "B"}}

LookupSeqs == UNION {[1..n -> LookupCmds] : n \in 0..MaxSet}

Tokens ==
    {"", "hello", "/status", "/STATUS", "/h", "/c", "/C", "/a:c", "/a:C", "/B:c", "/b:c"}

Inputs == Tokens \cup {" " \o t \o " arg" : t \in Tokens} \cup {"\t", "/C\targ"}

LookupInit ==
    /\ RegistryNew(ExcludedChoices)
    /\ StoreNew
    /\ peer = None
    /\ \E cmds \in LookupSeqs :
          /\ _plugin_commands = set_plugin_commands(<<>>, _alias_map, cmds)
          /\ last = Call("set_plugin_commands", cmds, None)

FindCommand(user_input) ==
    /\ last' = Call("find_command", user_input,
                    find_command(commands, _alias_map, user_input))
    /\ UNCHANGED <<registry, store, peer>>

FindPluginCommand(user_input) ==
    /\ last' = Call("find_plugin_command", user_input,
                    find_plugin_command(_plugin_commands, user_input))
    /\ UNCHANGED <<registry, store, peer>>

CompletionEntries ==
    /\ last' = Call("completion_entries", None,
                    completion_entries(commands, _plugin_commands))
    /\ UNCHANGED <<registry, store, peer>>

GetHelpText ==
    /\ last' = Call("get_help_text", None, get_help_text(commands, _plugin_commands))
    /\ UNCHANGED <<registry, store, peer>>

LookupNext ==
    \/ \E user_input \in Inputs : FindCommand(user_input)
    \/ \E user_input \in Inputs : FindPluginCommand(user_input)
    \/ CompletionEntries
    \/ GetHelpText

LookupSpec == LookupInit /\ [][LookupNext]_vars

-----------------------------------------------------------------------------
(* PluginManager._normalize_repo                                           *)

RemovePrefix(source) ==
    IF StartsWith(source, "https://github.com/") THEN SubSeq(source, 19 + 1, Len(source))
    ELSE IF StartsWith(source, "github.com/") THEN SubSeq(source, 11 + 1, Len(source))
    ELSE source

RemoveGitSuffix(source) ==
    IF EndsWith(source, ".git") THEN SubSeq(source, 1, Len(source) - 4) ELSE source

_normalize_repo(source) == RStripSlash(RemoveGitSuffix(RemovePrefix(Strip(source))))

-----------------------------------------------------------------------------
(* The data model (models.py) and the plugin checkouts the parser reads.   *)

\* data.get(k, default) on a JSON object
Get(data, k, default) == IF k \in DOMAIN data THEN data[k] ELSE default

ModelsPluginCommand(name, description, prompt_file) ==
    [name |-> name, description |-> description, prompt_file |-> prompt_file]

PluginAgent(name, description, prompt_file) ==
    [name |-> name, description |-> description, prompt_file |-> prompt_file]

PluginManifest(name, version, description, author, repository, cmds, agents) ==
    [name |-> name, version |-> version, description |-> description,
     author |-> author, repository |-> repository, commands |-> cmds,
     agents |-> agents, mcp_server |-> None, prompts_dir |-> "prompts"]

InstalledPlugin(name, version, description, repository, install_path, enabled, manifest) ==
    [name |-> name, version |-> version, description |-> description,
     repository |-> repository, install_path |-> install_path,
     enabled |-> enabled, manifest |-> manifest]

MarketplacePlugin(name, version, description, author, repository) ==
    [name |-> name, version |-> version, description |-> description,
     author |-> author, repository |-> repository]

Marketplace(name, version, url, plugins) ==
    [name |-> name, version |-> version, url |-> url, plugins |-> plugins]

MANIFEST_PATHS == <<
    ".vibe-plugin/manifest.json",
    ".claude-plugin/marketplace.json",
    ".claude-plugin/plugin.json",
    "plugin.json",
    "manifest.json" >>

skip_files == {"readme.md", "claude.md", "agents.md", "vibe.md"}

\* A checkout is [json: path -> parsed JSON object, or BadJson for a file that
\* json.loads rejects (a JSON value that is a string or an object is [str: s]
\* or [obj: o]); md: the markdown files, in the order rglob yields
\* them, each [path, meta] with meta the frontmatter _read_frontmatter returns]
BadJson == [bad_json |-> TRUE]

\* a file that holds a JSON array: json.loads accepts it and _convert_manifest
\* raises at data.get
JsonArray == [json_array |-> TRUE]

NoJson == [x \in {} |-> x]

Tree(json, md) == [json |-> json, md |-> md]

\* Path.name and Path.stem of a markdown file
BaseName(path) == LastSegment(path)

Stem(path) ==
    LET n == BaseName(path)
    IN  IF EndsWith(n, ".md") THEN SubSeq(n, 1, Len(n) - 3) ELSE n

\* a scan that compares the file name as it is spelled
MdUnder_case_sensitive(tree, dir) ==
    SelectSeq(tree.md, LAMBDA f :
        StartsWith(f.path, dir \o "/") /\ BaseName(f.path) \notin skip_files)

\* the files base_dir.rglob("*.md") yields that are not skipped
MdUnder(tree, dir) ==
    SelectSeq(tree.md, LAMBDA f :
        StartsWith(f.path, dir \o "/") /\ Lower(BaseName(f.path)) \notin skip_files)

\* path.glob("*.md"): the markdown files at the checkout root, not skipped
MdAtRoot(tree) ==
    SelectSeq(tree.md, LAMBDA f :
        ~Contains(f.path, "/") /\ Lower(BaseName(f.path)) \notin skip_files)

MapSeq(s, Op(_)) == [i \in DOMAIN s |-> Op(s[i])]

CommandOfMd(f) ==
    ModelsPluginCommand(Get(f.meta, "name", Stem(f.path)),
                        Get(f.meta, "description", ""), f.path)

\* agent_file.relative_to(agents_dir).with_suffix("").as_posix()
AgentNameOfMd(f) ==
    LET rel == SubSeq(f.path, Len("agents/") + 1, Len(f.path))
    IN  IF EndsWith(rel, ".md") THEN SubSeq(rel, 1, Len(rel) - 3) ELSE rel

AgentOfMd(f) ==
    PluginAgent(Get(f.meta, "name", AgentNameOfMd(f)),
                Get(f.meta, "description", ""), f.path)

_discover_agents(tree) == MapSeq(MdUnder(tree, "agents"), AgentOfMd)

\* deduplication by name alone
Unique_by_name(entries, seen) ==
    LET first == {i \in DOMAIN entries :
                     /\ entries[i].name # ""
                     /\ \A j \in 1..(i - 1) : entries[j].name # entries[i].name}
    IN  SelectSeq([i \in DOMAIN entries |-> IF i \in first THEN entries[i] ELSE None],
                  LAMBDA e : "none" \notin DOMAIN e)

RECURSIVE Unique(_, _)
\* keeps the first entry of each (name, prompt_file) pair, drops empty names
Unique(entries, seen) ==
    IF entries = <<>> THEN <<>>
    ELSE LET e == Head(entries)
             key == <<e.name, e.prompt_file>>
         IN  IF e.name = "" \/ key \in seen
             THEN Unique(Tail(entries), seen)
             ELSE <<e>> \o Unique(Tail(entries), seen \cup {key})

CommandOfJson(cmd) ==
    ModelsPluginCommand(Get(cmd, "name", ""), Get(cmd, "description", ""),
                        Get(cmd, "prompt_file", Get(cmd, "prompt", "")))

AgentOfJson(agent) ==
    PluginAgent(Get(agent, "name", ""), Get(agent, "description", ""),
                Get(agent, "prompt_file", Get(agent, "prompt", "")))

AuthorOf(data) ==
    LET author_data == Get(data, "author", [str |-> ""])
    IN  IF "obj" \in DOMAIN author_data
        THEN Get(author_data.obj, "name", "") ELSE author_data.str

_convert_manifest(data, tree, path_name) ==
    LET ext == IF "extensions" \in DOMAIN data
               THEN (IF data.extensions # <<>> THEN data.extensions[1] ELSE NoJson)
               ELSE data
        author == IF "extensions" \in DOMAIN data
                  THEN Get(Get(ext, "developer", NoJson), "name", "")
                  ELSE AuthorOf(data)
        explicit == MapSeq(Get(data, "commands", <<>>), CommandOfJson)
        agents == SelectSeq(MapSeq(Get(data, "agents", <<>>), AgentOfJson),
                            LAMBDA a : a.name # "")
                    \o _discover_agents(tree)
        cmds == explicit \o MapSeq(MdUnder(tree, "commands"), CommandOfMd)
    IN  PluginManifest(Get(ext, "name", path_name), Get(ext, "version", "1.0.0"),
                       Get(ext, "description", ""), author,
                       Get(data, "repository", ""),
                       Unique(cmds, {}), Unique(agents, {}))

_infer_manifest(tree, path_name) ==
    LET cmds == MapSeq(MdUnder(tree, "commands") \o MdUnder(tree, "prompts")
                           \o MdAtRoot(tree), CommandOfMd)
    IN  IF cmds = <<>> THEN None
        ELSE PluginManifest(path_name, "1.0.0", "", "", "",
                            Unique(cmds, {}), Unique(_discover_agents(tree), {}))

\* the first path with a file that both loads and converts is returned
\* without looking further
_parse_manifest_last_match(tree, path_name) ==
    LET parsed == {i \in DOMAIN MANIFEST_PATHS :
                      /\ MANIFEST_PATHS[i] \in DOMAIN tree.json
                      /\ "bad_json" \notin DOMAIN tree.json[MANIFEST_PATHS[i]]
                      /\ "json_array" \notin DOMAIN tree.json[MANIFEST_PATHS[i]]}
    IN  IF parsed # {}
        THEN _convert_manifest(
                 tree.json[MANIFEST_PATHS[CHOOSE i \in parsed : \A j \in parsed : i >= j]],
                 tree, path_name)
        ELSE _infer_manifest(tree, path_name)

\* a failure in the first file that exists ends the search
_parse_manifest_first_file(tree, path_name) ==
    LET found == {i \in DOMAIN MANIFEST_PATHS : MANIFEST_PATHS[i] \in DOMAIN tree.json}
        first == tree.json[MANIFEST_PATHS[CHOOSE i \in found : \A j \in found : i <= j]]
    IN  IF found = {} THEN _infer_manifest(tree, path_name)
        ELSE IF "bad_json" \in DOMAIN first \/ "json_array" \in DOMAIN first THEN None
        ELSE _convert_manifest(first, tree, path_name)

\* the except clause covers json.loads and _convert_manifest alike: a file that
\* fails either way is logged and the next path is tried
_parse_manifest(tree, path_name) ==
    LET parsed == {i \in DOMAIN MANIFEST_PATHS :
                      /\ MANIFEST_PATHS[i] \in DOMAIN tree.json
                      /\ "bad_json" \notin DOMAIN tree.json[MANIFEST_PATHS[i]]
                      /\ "json_array" \notin DOMAIN tree.json[MANIFEST_PATHS[i]]}
    IN  IF parsed # {}
        THEN _convert_manifest(
                 tree.json[MANIFEST_PATHS[CHOOSE i \in parsed : \A j \in parsed : i <= j]],
                 tree, path_name)
        ELSE _infer_manifest(tree, path_name)

-----------------------------------------------------------------------------
(* What the network holds: the GitHub repositories, the repository listing  *)
(* of each account, and the raw files of the marketplace repositories.     *)

TreeFoo ==
    Tree(".vibe-plugin/manifest.json" :>
             [name |-> "foo", version |-> "2.0",
              author |-> [obj |-> [name |-> "ann"]],
              commands |-> << [name |-> "status", prompt_file |-> "commands/status.md"],
                              [name |-> "c", prompt |-> "c.md"] >>]
           @@ "plugin.json" :> [name |-> "other"],
         << [path |-> "README.md", meta |-> NoJson],
            [path |-> "commands/status.md", meta |-> [description |-> "foo status"]],
            [path |-> "prompts/c.md", meta |-> NoJson] >>)

TreeBar ==
    Tree("plugin.json" :>
             [name |-> "bar", author |-> [str |-> "bob"],
              commands |-> << [name |-> "status", description |-> "bar status"],
                              [name |-> "c"] >>],
         <<>>)

TreeTools ==
    Tree("manifest.json" :> BadJson,
         << [path |-> "prompts/c.md", meta |-> [name |-> "c", description |-> "tools c"]],
            [path |-> "prompts/README.md", meta |-> NoJson] >>)

TreeEmpty == Tree(NoJson, <<>>)

\* The repositories lab/<k1..k5><m> hold every layout the parser tells apart:
\* k_i says what is at MANIFEST_PATHS[i] ("a" no file, "b" a file json.loads
\* rejects, "x" a JSON array, "g" a manifest named after its path) and m which
\* markdown files there are ("n" none, "a" agents only, "c" commands too)
GitHub ==
    LET names == <<"vibe", "market", "claude", "plugin", "manifest">>
        cmds == << [name |-> "status", prompt_file |-> "commands/status.md"],
                   [name |-> "status", prompt_file |-> "commands/status.md",
                    description |-> "again"],
                   [description |-> "nameless"],
                   [description |-> "nameless too"],
                   [name |-> "c", prompt |-> "c.md"] >>
        agents == << [name |-> "helper", prompt |-> "agents/helper.md"],
                     [name |-> "helper", prompt_file |-> "agents/helper.md",
                      description |-> "again"] >>
        Good(i) ==
            IF i = 2
            THEN [extensions |-> << [name |-> names[i], version |-> "2.0",
                                     developer |-> [name |-> "ann"]] >>,
                  commands |-> cmds, agents |-> agents]
            ELSE [name |-> names[i], version |-> "2.0", description |-> names[i],
                  commands |-> cmds, agents |-> agents]
        File(k, i) == IF k = "b" THEN BadJson ELSE IF k = "x" THEN JsonArray ELSE Good(i)
        Md(m) ==
            IF m = "n" THEN <<>>
            ELSE IF m = "a"
            THEN << [path |-> "agents/helper.md", meta |-> NoJson],
                    [path |-> "agents/sub/helper.md", meta |-> [name |-> "helper"]],
                    [path |-> "agents/README.md", meta |-> NoJson] >>
            ELSE << [path |-> "README.md", meta |-> NoJson],
                    [path |-> "commands/status.md", meta |-> [description |-> "status"]],
                    [path |-> "commands/sub/status.md", meta |-> NoJson],
                    [path |-> "prompts/c.md", meta |-> NoJson],
                    [path |-> "agents/helper.md", meta |-> [name |-> "helper"]],
                    [path |-> "notes.md", meta |-> [name |-> ""]],
                    [path |-> "commands/CLAUDE.md", meta |-> NoJson],
                    [path |-> "prompts/Vibe.md", meta |-> [name |-> "vibe"]],
                    [path |-> "agents/Agents.md", meta |-> NoJson],
                    [path |-> "AGENTS.md", meta |-> NoJson] >>
        Lab(code) ==
            Tree([p \in {MANIFEST_PATHS[i] : i \in {j \in 1..5 : SubSeq(code, j, j) # "a"}} |->
                     LET i == CHOOSE j \in 1..5 : MANIFEST_PATHS[j] = p
                     IN  File(SubSeq(code, i, i), i)],
                 Md(SubSeq(code, 6, 6)))
        codes == {k1 \o k2 \o k3 \o k4 \o k5 \o m :
                     k1 \in {"a", "b", "x", "g"}, k2 \in {"a", "b", "x", "g"},
                     k3 \in {"a", "b", "g"}, k4 \in {"a", "b", "g"},
                     k5 \in {"a", "b", "g"}, m \in {"n", "a", "c"}}
        \* a manifest with a command named after a path
        nested ==
            Tree("plugin.json" :>
                     [name |-> "nested",
                      commands |-> << [name |-> "build", prompt_file |-> "prompts/build.md"],
                                      [name |-> "docs/build", prompt |-> "build.md"],
                                      [name |-> "late", prompt_file |-> "prompts/build.md"] >>],
                 << [path |-> "prompts/build.md", meta |-> NoJson] >>)
    IN  "org/foo-plugin" :> TreeFoo @@ "org/plugin" :> TreeBar
            @@ "acme/vibe-tools" :> TreeTools @@ "org/empty" :> TreeEmpty
            @@ "acme/nested" :> nested
            @@ [repo \in {"lab/" \o code : code \in codes} |->
                    Lab(SubSeq(repo, Len("lab/") + 1, Len(repo)))]

\* GET /orgs/{name}/repos and /users/{name}/repos, sorted by update time
OrgRepos == "org" :> << [name |-> "empty", full_name |-> "org/empty", description |-> ""],
                        [name |-> "foo-plugin", full_name |-> "org/foo-plugin",
                         description |-> "Foo"],
                        [name |-> "plugin", full_name |-> "org/plugin", description |-> ""] >>

UserRepos == "acme" :> << [name |-> "site", full_name |-> "acme/site", description |-> ""],
                          [name |-> "Vibe-Tools", full_name |-> "acme/vibe-tools",
                           description |-> "prompts"] >>

\* raw.githubusercontent.com/{repo}/main/{file}
RawFiles ==
    "org/registry" :>
        ("registry.json" :> BadJson
         @@ "marketplace.json" :>
             [name |-> "registry",
              plugins |-> << [name |-> "foo", repository |-> "org/foo-plugin"] >>]
         @@ ".claude-plugin/marketplace.json" :>
             [extensions |-> << [name |-> "bar", repository |-> "org/plugin",
                                 developer |-> [name |-> "bob"]] >>])

\* the network during one call: every request answers ("up"), every request
\* raises ("down"), or the requests of one kind time out and the others
\* answer: "repos" GET /repos/{repo}, "orgs" GET /orgs/{name}/repos, "users"
\* GET /users/{name}/repos, "contents" GET /repos/{repo}/contents/{path},
\* "raw" the raw.githubusercontent.com files
NetStates == {"up", "down"}

-----------------------------------------------------------------------------
(* PluginManager: resolution of a source to a repository.                  *)

\* sub in s
ContainsStr(s, sub) ==
    \E i \in 1..(Len(s) - Len(sub) + 1) : SubSeq(s, i, i + Len(sub) - 1) = sub

_find_in_marketplaces(mps, name) ==
    LET hits == {<<i, j>> \in (DOMAIN mps) \X (1..8) :
                    /\ j \in DOMAIN mps[i].val.plugins
                    /\ mps[i].val.plugins[j].name = name}
        first == CHOOSE h \in hits : \A g \in hits :
                    h[1] < g[1] \/ (h[1] = g[1] /\ h[2] <= g[2])
    IN  IF hits = {} THEN None ELSE mps[first[1]].val.plugins[first[2]]

_check_repo_exists(net, repo) == net \notin {"down", "repos"} /\ repo \in DOMAIN GitHub

plugin_patterns(org_name) == <<
    org_name \o "-plugin", org_name \o "-vibe-plugin", org_name \o "-claude-plugin",
    "plugin", "vibe-plugin", "claude-plugin" >>

\* the first pattern whose repository exists, or "" for None
_try_common_plugin_patterns(net, org_name) ==
    LET pats == plugin_patterns(org_name)
        hits == {i \in DOMAIN pats : _check_repo_exists(net, org_name \o "/" \o pats[i])}
    IN  IF hits = {} THEN ""
        ELSE org_name \o "/" \o pats[CHOOSE i \in hits : \A j \in hits : i <= j]

\* the listing as an organization, else as a user, else [], when the requests
\* answer
_fetch_org_repos(org_name) ==
    IF org_name \in DOMAIN OrgRepos THEN OrgRepos[org_name]
    ELSE IF org_name \in DOMAIN UserRepos THEN UserRepos[org_name]
    ELSE <<>>

plugin_keywords == {"plugin", "vibe", "claude", "extension", "addon"}

manifest_paths == <<
    ".vibe-plugin/manifest.json", ".claude-plugin/marketplace.json",
    "plugin.json", "manifest.json", "commands", "prompts" >>

\* GET /repos/{repo}/contents/{path} answers success
ContentsExists(repo, path) ==
    /\ repo \in DOMAIN GitHub
    /\ \/ path \in DOMAIN GitHub[repo].json
       \/ \E i \in DOMAIN GitHub[repo].md : StartsWith(GitHub[repo].md[i].path, path \o "/")

_check_repo_has_manifest(net, repo) ==
    /\ net \notin {"down", "contents"}
    /\ \E i \in DOMAIN manifest_paths : ContentsExists(repo, manifest_paths[i])

_find_plugin_in_repos(net, repos) ==
    LET hits == {i \in DOMAIN repos :
                    /\ \E kw \in plugin_keywords :
                          \/ ContainsStr(Lower(repos[i].name), kw)
                          \/ ContainsStr(Lower(repos[i].description), kw)
                    /\ repos[i].full_name # ""
                    /\ _check_repo_has_manifest(net, repos[i].full_name)}
    IN  IF hits = {} THEN ""
        ELSE repos[CHOOSE i \in hits : \A j \in hits : i <= j].full_name

\* a listing request that raises makes the search give up with None: the
\* organization request, or the user request made after the organization
\* request answered without success
_search_org_repos_for_plugin(net, org_name) ==
    IF \/ net \in {"down", "orgs"}
       \/ net = "users" /\ org_name \notin DOMAIN OrgRepos
    THEN ""
    ELSE _find_plugin_in_repos(net, _fetch_org_repos(org_name))

_resolve_org_plugin(net, org_name) ==
    IF _try_common_plugin_patterns(net, org_name) # ""
    THEN _try_common_plugin_patterns(net, org_name)
    ELSE _search_org_repos_for_plugin(net, org_name)

-----------------------------------------------------------------------------
(* PluginManager: the store.                                               *)

\* _save_config that leaves the marketplaces out of the document
_save_config_installed_only(installed, mps) ==
    [installed |-> DictValues(installed), marketplaces |-> <<>>]

\* the document _save_config writes
_save_config(installed, mps) ==
    [installed |-> DictValues(installed), marketplaces |-> DictValues(mps)]

\* _load_config: what __init__ holds after reading the file.  The file is
\* absent, BadJson (unreadable, or json.loads raises) or a JSON object; an
\* entry without a required field fails model_validate, and the exception
\* ends the load where it stands, keeping what the loops had stored
_load_config(file) ==
    LET plugin(d) ==
            InstalledPlugin(d.name, Get(d, "version", "1.0.0"), Get(d, "description", ""),
                            d.repository, d.install_path, Get(d, "enabled", TRUE),
                            Get(d, "manifest", None))
        mp(d) ==
            Marketplace(d.name, Get(d, "version", "1.0.0"), d.url, Get(d, "plugins", <<>>))
        valid(d, required) == required \subseteq DOMAIN d
        \* the entries the loop reaches before one fails validation
        Reached(entries, required) ==
            SubSeq(entries, 1,
                   IF \A i \in DOMAIN entries : valid(entries[i], required)
                   THEN Len(entries)
                   ELSE (CHOOSE i \in DOMAIN entries :
                            /\ ~valid(entries[i], required)
                            /\ \A j \in 1..(i - 1) : valid(entries[j], required)) - 1)
        RECURSIVE StorePlugins(_, _), StoreMarketplaces(_, _)
        StorePlugins(dict, entries) ==
            IF entries = <<>> THEN dict
            ELSE StorePlugins(DictSet(dict, Head(entries).name, plugin(Head(entries))),
                              Tail(entries))
        StoreMarketplaces(dict, entries) ==
            IF entries = <<>> THEN dict
            ELSE StoreMarketplaces(DictSet(dict, Head(entries).url, mp(Head(entries))),
                                   Tail(entries))
        plugins == Get(file, "installed", <<>>)
        mps == Get(file, "marketplaces", <<>>)
        plugins_ok == \A i \in DOMAIN plugins :
                          valid(plugins[i], {"name", "repository", "install_path"})
    IN  IF "absent" \in DOMAIN file \/ "bad_json" \in DOMAIN file
        THEN [installed |-> <<>>, marketplaces |-> <<>>]
        ELSE [installed |->
                  StorePlugins(<<>>, Reached(plugins, {"name", "repository", "install_path"})),
              marketplaces |->
                  IF plugins_ok
                  THEN StoreMarketplaces(<<>>, Reached(mps, {"name", "url"}))
                  ELSE <<>>]

\* plugins_dir / plugin_name, and the directory name of an install path
InstallPath(plugin_name) == "plugins/" \o plugin_name

DirOf(install_path) == LastSegment(install_path)

\* A checkout is [origin: the repository cloned, intact: FALSE once
\* shutil.rmtree has left it half deleted]; a half-deleted checkout has no files
PartialCheckout(checkout) == [checkout EXCEPT !.intact = FALSE]

TreeOf(checkout) ==
    IF checkout.intact /\ checkout.origin \in DOMAIN GitHub
    THEN GitHub[checkout.origin] ELSE TreeEmpty

GitCommand(cmd, repo, dir, rc) == [cmd |-> cmd, repo |-> repo, dir |-> dir, rc |-> rc]

\* git clone --depth 1 https://github.com/{repo}.git {path}
_git_clone(repo, dir, git_ok) ==
    GitCommand("clone --depth 1", repo, dir,
               IF git_ok /\ repo \in DOMAIN GitHub THEN 0 ELSE 128)

\* git pull --ff-only in {path}; a half-deleted checkout may still hold .git
_git_pull(dirs, dir, git_ok) ==
    GitCommand("pull --ff-only", "", dir, IF git_ok THEN 0 ELSE 1)

\* subprocess.run without check=True: a non-zero exit goes unnoticed
Raises_unchecked(git) == FALSE

\* subprocess.run(..., check=True) raises CalledProcessError
Raises(git) == git.rc # 0

\* the checkout a successful git command leaves in the directory: a clone
\* creates it, a pull that is up to date leaves the working tree as it was
CheckoutAfter(dirs, git) ==
    IF git.cmd = "clone --depth 1"
    THEN [origin |-> git.repo, intact |-> TRUE]
    ELSE dirs[git.dir]

PutDir(dirs, dir, checkout) ==
    [d \in DOMAIN dirs \cup {dir} |-> IF d = dir THEN checkout ELSE dirs[d]]

RemoveDir(dirs, dir) == [d \in DOMAIN dirs \ {dir} |-> dirs[d]]

\* the path of the prompt file of a command in the checkout, or "" for None
PromptPath(tree, manifest, command) ==
    LET paths == {tree.md[i].path : i \in DOMAIN tree.md}
    IN  IF command.prompt_file = "" THEN ""
        ELSE IF command.prompt_file \in paths THEN command.prompt_file
        ELSE IF manifest.prompts_dir \o "/" \o command.prompt_file \in paths
             THEN manifest.prompts_dir \o "/" \o command.prompt_file
        ELSE ""

RECURSIVE WriteCommands(_, _, _, _, _)
\* _install_commands: one file {plugin.name}_{cmd.name}.md per command whose
\* prompt file is found.  A file name that holds a "/" names a directory that
\* does not exist: write_text raises and the files after it are not written
WriteCommands(files, plugin, tree, manifest, cmds) ==
    IF cmds = <<>> THEN files
    ELSE LET cmd == Head(cmds)
             prompt == PromptPath(tree, manifest, cmd)
             cmd_file == plugin.name \o "_" \o cmd.name \o ".md"
         IN  IF prompt # "" /\ Contains(cmd_file, "/") THEN files
             ELSE WriteCommands(
                      IF prompt = "" THEN files
                      ELSE PutDir(files, cmd_file, plugin.install_path \o "/" \o prompt),
                      plugin, tree, manifest, Tail(cmds))

_install_commands(files, plugin, tree) ==
    IF plugin.manifest # None /\ plugin.manifest.commands # <<>>
    THEN WriteCommands(files, plugin, tree, plugin.manifest, plugin.manifest.commands)
    ELSE files

\* the source is normalized without a look at the marketplaces
SourceRepo_without_marketplace(mps, source, from_marketplace) == _normalize_repo(source)

\* lines 138-143: the repository a source names, after the marketplace lookup
SourceRepo(mps, source, from_marketplace) ==
    LET plugin_info == IF from_marketplace # "" \/ ~Contains(source, "/")
                       THEN _find_in_marketplaces(mps, source) ELSE None
    IN  _normalize_repo(IF plugin_info # None THEN plugin_info.repository ELSE source)

\* a bare name that resolves to nothing is handed to git as it is
ResolveRepo_unvalidated(mps, source, from_marketplace, net) ==
    LET repo == SourceRepo(mps, source, from_marketplace)
    IN  IF Contains(repo, "/") \/ _resolve_org_plugin(net, repo) = "" THEN repo
        ELSE _resolve_org_plugin(net, repo)

\* lines 146-156: the owner/repo coordinate, or "" when install raises ValueError
ResolveRepo(mps, source, from_marketplace, net) ==
    LET repo == SourceRepo(mps, source, from_marketplace)
    IN  IF Contains(repo, "/") THEN repo ELSE _resolve_org_plugin(net, repo)

\* lines 170-182: the registry entry of a checkout
PluginOf(repo, plugin_name, tree) ==
    LET manifest == _parse_manifest(tree, plugin_name)
    IN  IF manifest # None
        THEN InstalledPlugin(manifest.name, manifest.version, manifest.description,
                             repo, InstallPath(plugin_name), TRUE, manifest)
        ELSE InstalledPlugin(plugin_name, "1.0.0", "", repo,
                             InstallPath(plugin_name), TRUE, None)

\* a registry kept as a list: every install appends an entry
Upsert_appending(installed, plugin) ==
    Append(installed, [key |-> plugin.name, val |-> plugin])

\* self._installed[plugin.name] = plugin
Upsert(installed, plugin) == DictSet(installed, plugin.name, plugin)

install(source, from_marketplace, net, git_ok) ==
    LET repo == ResolveRepo(_marketplaces, source, from_marketplace, net)
        plugin_name == LastSegment(repo)
        git == IF plugin_name \in DOMAIN plugins_dir
               THEN _git_pull(plugins_dir, plugin_name, git_ok)
               ELSE _git_clone(repo, plugin_name, git_ok)
        checkout == CheckoutAfter(plugins_dir, git)
        plugin == PluginOf(repo, plugin_name, TreeOf(checkout))
        args == <<source, from_marketplace>>
        \* lines 138-141: the source the marketplace lookup leaves
        plugin_info == IF from_marketplace # "" \/ ~Contains(source, "/")
                       THEN _find_in_marketplaces(_marketplaces, source) ELSE None
        looked_up == IF plugin_info # None THEN plugin_info.repository ELSE source
        message == "Invalid plugin source '" \o looked_up
                       \o "'. Expected format: 'owner/repo' "
                       \o "(e.g., 'EveryInc/compound-engineering-plugin'). "
                       \o "Could not find a plugin repository in the '"
                       \o _normalize_repo(looked_up) \o "' GitHub organization."
        \* line 189: write_text raises on a command file name that holds a "/"
        unwritable ==
            \E p \in {plugin}, tree \in {TreeOf(checkout)} :
                /\ p.manifest # None
                /\ \E i \in DOMAIN p.manifest.commands :
                       /\ Contains(p.name \o "_" \o p.manifest.commands[i].name, "/")
                       /\ PromptPath(tree, p.manifest, p.manifest.commands[i]) # ""
        \* the call as it is recorded, with the network it ran under
        Ran(ret, ran) == [net |-> net] @@ CallRan("install", args, ret, ran)
    IN  IF repo = ""
        THEN /\ last' = Ran([error |-> "ValueError", message |-> message], <<>>)
             /\ UNCHANGED store
        ELSE IF Raises(git)
        THEN /\ last' = Ran(Error("CalledProcessError"), <<git>>)
             /\ UNCHANGED store
        ELSE /\ plugins_dir' = PutDir(plugins_dir, plugin_name, checkout)
             /\ _installed' = Upsert(_installed, plugin)
             /\ config_file' = _save_config(_installed', _marketplaces)
             /\ command_files' = _install_commands(command_files, plugin, TreeOf(checkout))
             /\ last' = Ran(IF unwritable THEN Error("FileNotFoundError") ELSE plugin,
                            <<git>>)
             /\ UNCHANGED _marketplaces

\* rmtree: "ok", or it raises with the directory untouched or half deleted
RmOutcomes == {"ok", "untouched", "partial"}

\* shutil.rmtree(plugin.install_path) and how it ended
RmTree(dir, rm) == GitCommand("rmtree", "", dir, IF rm = "ok" THEN 0 ELSE 1)

\* shutil.rmtree(..., ignore_errors=True): a failed deletion goes unnoticed
RmRaises_ignored(rm) == FALSE

\* shutil.rmtree raises OSError unless it deleted the whole directory
RmRaises(rm) == rm # "ok"

\* the plugins directory after rmtree on dir
AfterRmTree(dirs, dir, rm) ==
    IF dir \notin DOMAIN dirs \/ rm = "untouched" THEN dirs
    ELSE IF rm = "partial" THEN PutDir(dirs, dir, PartialCheckout(dirs[dir]))
    ELSE RemoveDir(dirs, dir)

\* lines 206-214: uninstall of a plugin that is in the registry
RemoveInstalled(name, rm) ==
    LET plugin == DictGet(_installed, name)
        dir == DirOf(plugin.install_path)
        ran == IF dir \in DOMAIN plugins_dir THEN <<RmTree(dir, rm)>> ELSE <<>>
    IN  IF dir \in DOMAIN plugins_dir /\ RmRaises(rm)
        THEN /\ plugins_dir' = AfterRmTree(plugins_dir, dir, rm)
             /\ last' = CallRan("uninstall", name, Error("OSError"), ran)
             /\ UNCHANGED <<_installed, _marketplaces, config_file, command_files>>
        ELSE /\ dir \in DOMAIN plugins_dir \/ rm = "ok"
             /\ plugins_dir' = AfterRmTree(plugins_dir, dir, rm)
             /\ _installed' = DictDel(_installed, name)
             /\ config_file' = _save_config(_installed', _marketplaces)
             /\ last' = CallRan("uninstall", name, TRUE, ran)
             /\ UNCHANGED <<_marketplaces, command_files>>

\* uninstall that writes the registry file even for an unknown name
uninstall_rewriting(name, rm) ==
    IF ~DictHas(_installed, name)
    THEN /\ rm = "ok"
         /\ config_file' = _save_config(_installed, _marketplaces)
         /\ last' = Call("uninstall", name, FALSE)
         /\ UNCHANGED <<_installed, _marketplaces, plugins_dir, command_files>>
    ELSE RemoveInstalled(name, rm)

uninstall(name, rm) ==
    IF ~DictHas(_installed, name)
    THEN /\ rm = "ok"
         /\ last' = Call("uninstall", name, FALSE)
         /\ UNCHANGED store
    ELSE RemoveInstalled(name, rm)

\* enable / disable that set the flag of every plugin
SetEnabled_all(installed, name, flag) ==
    [i \in DOMAIN installed |->
        [installed[i] EXCEPT !.val = [installed[i].val EXCEPT !.enabled = flag]]]

SetEnabled(installed, name, flag) ==
    DictSet(installed, name, [DictGet(installed, name) EXCEPT !.enabled = flag])

enable(name) ==
    IF DictHas(_installed, name)
    THEN /\ _installed' = SetEnabled(_installed, name, TRUE)
         /\ config_file' = _save_config(_installed', _marketplaces)
         /\ last' = Call("enable", name, TRUE)
         /\ UNCHANGED <<_marketplaces, plugins_dir, command_files>>
    ELSE /\ last' = Call("enable", name, FALSE)
         /\ UNCHANGED store

disable(name) ==
    IF DictHas(_installed, name)
    THEN /\ _installed' = SetEnabled(_installed, name, FALSE)
         /\ config_file' = _save_config(_installed', _marketplaces)
         /\ last' = Call("disable", name, TRUE)
         /\ UNCHANGED <<_marketplaces, plugins_dir, command_files>>
    ELSE /\ last' = Call("disable", name, FALSE)
         /\ UNCHANGED store

MarketplacePluginOfJson(p, author) ==
    MarketplacePlugin(Get(p, "name", ""), Get(p, "version", "1.0.0"),
                      Get(p, "description", ""), author, Get(p, "repository", ""))

PluginOfPluginsList(p) == MarketplacePluginOfJson(p, Get(p, "author", ""))

PluginOfExtensions(p) ==
    MarketplacePluginOfJson(p, Get(Get(p, "developer", NoJson), "name", ""))

_parse_marketplace_data(repo, data) ==
    Marketplace(Get(data, "name", LastSegment(repo)), Get(data, "version", "1.0.0"),
                "https://github.com/" \o repo,
                IF "plugins" \in DOMAIN data THEN MapSeq(data.plugins, PluginOfPluginsList)
                ELSE IF "extensions" \in DOMAIN data
                     THEN MapSeq(data.extensions, PluginOfExtensions)
                ELSE <<>>)

raw_urls == <<"registry.json", "marketplace.json",
              ".claude-plugin/marketplace.json", ".vibe-plugin/marketplace.json">>

\* only registry.json is tried
_fetch_marketplace_info_first_url_only(net, repo) ==
    LET files == IF net \notin {"down", "raw"} /\ repo \in DOMAIN RawFiles
                 THEN RawFiles[repo] ELSE NoJson
    IN  IF /\ raw_urls[1] \in DOMAIN files
           /\ "bad_json" \notin DOMAIN files[raw_urls[1]]
           /\ "json_array" \notin DOMAIN files[raw_urls[1]]
        THEN _parse_marketplace_data(repo, files[raw_urls[1]])
        ELSE Marketplace(LastSegment(repo), "1.0.0", "https://github.com/" \o repo, <<>>)

_fetch_marketplace_info(net, repo) ==
    LET files == IF net \notin {"down", "raw"} /\ repo \in DOMAIN RawFiles
                 THEN RawFiles[repo] ELSE NoJson
        \* response.json() or _parse_marketplace_data raising moves on to the next url
        parsed == {i \in DOMAIN raw_urls :
                      /\ raw_urls[i] \in DOMAIN files
                      /\ "bad_json" \notin DOMAIN files[raw_urls[i]]
                      /\ "json_array" \notin DOMAIN files[raw_urls[i]]}
    IN  IF parsed = {}
        THEN Marketplace(LastSegment(repo), "1.0.0", "https://github.com/" \o repo, <<>>)
        ELSE _parse_marketplace_data(
                 repo, files[raw_urls[CHOOSE i \in parsed : \A j \in parsed : i <= j]])

add_marketplace(url, net) ==
    LET repo == _normalize_repo(url)
        github_url == "https://github.com/" \o repo
        marketplace == [_fetch_marketplace_info(net, repo) EXCEPT !.url = github_url]
    IN  /\ _marketplaces' = DictSet(_marketplaces, github_url, marketplace)
        /\ config_file' = _save_config(_installed, _marketplaces')
        /\ last' = [net |-> net] @@ Call("add_marketplace", url, marketplace)
        /\ UNCHANGED <<_installed, plugins_dir, command_files>>

remove_marketplace(url) ==
    LET github_url == "https://github.com/" \o _normalize_repo(url)
    IN  IF DictHas(_marketplaces, github_url)
        THEN /\ _marketplaces' = DictDel(_marketplaces, github_url)
             /\ config_file' = _save_config(_installed, _marketplaces')
             /\ last' = Call("remove_marketplace", url, TRUE)
             /\ UNCHANGED <<_installed, plugins_dir, command_files>>
        ELSE /\ last' = Call("remove_marketplace", url, FALSE)
             /\ UNCHANGED store

\* get_plugin_commands that does not look at the enabled flag
EnabledCommands_with_disabled(installed) ==
    LET RECURSIVE Collect(_)
        Collect(entries) ==
            IF entries = <<>> THEN <<>>
            ELSE LET plugin == Head(entries).val
                 IN  (IF plugin.manifest # None
                      THEN [i \in DOMAIN plugin.manifest.commands |->
                               [plugin |-> plugin, cmd |-> plugin.manifest.commands[i]]]
                      ELSE <<>>) \o Collect(Tail(entries))
    IN  Collect(installed)

\* the commands of the enabled plugins that have a manifest, in dict order
EnabledCommands(installed) ==
    LET RECURSIVE Collect(_)
        Collect(entries) ==
            IF entries = <<>> THEN <<>>
            ELSE LET plugin == Head(entries).val
                 IN  (IF plugin.enabled /\ plugin.manifest # None
                      THEN [i \in DOMAIN plugin.manifest.commands |->
                               [plugin |-> plugin, cmd |-> plugin.manifest.commands[i]]]
                      ELSE <<>>) \o Collect(Tail(entries))
    IN  Collect(installed)

\* get_plugin_commands where a later command takes a short alias over
RECURSIVE CollectAliases_short_last_wins(_, _)
CollectAliases_short_last_wins(cmds, pairs) ==
    IF pairs = <<>> THEN cmds
    ELSE LET plugin == Head(pairs).plugin
             cmd == Head(pairs).cmd
             alias == "/" \o plugin.name \o ":" \o cmd.name
             short == "/" \o cmd.name
             cmds1 == DictSet(cmds, alias, <<plugin, cmd>>)
         IN  CollectAliases_short_last_wins(DictSet(cmds1, short, <<plugin, cmd>>),
                                            Tail(pairs))

RECURSIVE CollectAliases(_, _)
CollectAliases(cmds, pairs) ==
    IF pairs = <<>> THEN cmds
    ELSE LET plugin == Head(pairs).plugin
             cmd == Head(pairs).cmd
             alias == "/" \o plugin.name \o ":" \o cmd.name
             short == "/" \o cmd.name
             cmds1 == DictSet(cmds, alias, <<plugin, cmd>>)
         IN  CollectAliases(IF ~DictHas(cmds1, short)
                            THEN DictSet(cmds1, short, <<plugin, cmd>>) ELSE cmds1,
                            Tail(pairs))

get_plugin_commands(installed) == CollectAliases(<<>>, EnabledCommands(installed))

-----------------------------------------------------------------------------
(* The store under any sequence of calls.                                  *)

\* install(source, from_marketplace), with "" for from_marketplace=None
InstallArgs ==
    {<<source, "">> : source \in {"https://github.com/org/foo-plugin.git", "org/plugin",
                                  "org/gone", "foo", "org"}}
        \cup {<<"org/plugin", "org/registry">>}

PluginNames == {"foo", "bar", "nope"}

MarketplaceUrls == {"org/registry", "github.com/org/registry/"}

Install(source, from_marketplace, net, git_ok) ==
    install(source, from_marketplace, net, git_ok) /\ UNCHANGED <<registry, peer>>

Uninstall(name, rm) == uninstall(name, rm) /\ UNCHANGED <<registry, peer>>

Enable(name) == enable(name) /\ UNCHANGED <<registry, peer>>

Disable(name) == disable(name) /\ UNCHANGED <<registry, peer>>

AddMarketplace(url, net) == add_marketplace(url, net) /\ UNCHANGED <<registry, peer>>

RemoveMarketplace(url) == remove_marketplace(url) /\ UNCHANGED <<registry, peer>>

Init ==
    /\ RegistryNew({{}})
    /\ _plugin_commands = <<>>
    /\ StoreNew
    /\ last = Call("__init__", None, None)
    /\ peer = None

Next ==
    \/ \E args \in InstallArgs, net \in NetStates, git_ok \in BOOLEAN :
            Install(args[1], args[2], net, git_ok)
    \* rmtree here deletes everything or nothing; RemovalSpec has it fail part way
    \/ \E name \in PluginNames, rm \in {"ok", "untouched"} : Uninstall(name, rm)
    \/ \E name \in PluginNames : Enable(name)
    \/ \E name \in PluginNames : Disable(name)
    \/ \E url \in MarketplaceUrls, net \in NetStates : AddMarketplace(url, net)
    \/ \E url \in MarketplaceUrls : RemoveMarketplace(url)

Spec == Init /\ [][Next]_vars

-----------------------------------------------------------------------------
(* PluginManager.__init__ over the files it may find.                      *)

MaxEntries == 2    \* the longest installed and marketplaces lists in the file

\* the entries of a file: written by _save_config with every field, written
\* by hand with the required fields only, or lacking a required field
ConfigFiles ==
    LET plugins == {InstalledPlugin("foo", "2.0", "", "org/foo-plugin",
                                    "plugins/foo-plugin", FALSE, None),
                    [name |-> "bar", repository |-> "org/plugin",
                     install_path |-> "plugins/plugin"],
                    [name |-> "foo", version |-> "3.0"]}
        mps == {Marketplace("registry", "1.0.0", "https://github.com/org/registry", <<>>),
                [name |-> "registry"]}
        lists(S) == UNION {[1..n -> S] : n \in 0..MaxEntries}
    IN  {[absent |-> TRUE], BadJson}
            \cup {[installed |-> i, marketplaces |-> m] : i \in lists(plugins), m \in lists(mps)}
            \cup {[marketplaces |-> m] : m \in lists(mps)}

LoadInit ==
    /\ RegistryNew({{}})
    /\ _plugin_commands = <<>>
    /\ _installed = <<>>
    /\ _marketplaces = <<>>
    /\ plugins_dir = <<>>
    /\ command_files = <<>>
    /\ config_file \in ConfigFiles
    /\ last = Call("file", None, None)
    /\ peer = None

\* PluginManager(): lines 51-56
Load ==
    /\ _installed' = _load_config(config_file).installed
    /\ _marketplaces' = _load_config(config_file).marketplaces
    /\ last' = Call("__init__", None, None)
    /\ UNCHANGED <<registry, config_file, plugins_dir, command_files, peer>>

LoadSpec == LoadInit /\ [][Load]_vars

-----------------------------------------------------------------------------
(* The parser on a first install of any layout of manifest and markdown     *)
(* files.                                                                  *)

ParserNext ==
    /\ plugins_dir = <<>>
    /\ \E repo \in {r \in DOMAIN GitHub : StartsWith(r, "lab/")} :
           Install(repo, "", "up", TRUE)

ParserSpec == Init /\ [][ParserNext]_vars

-----------------------------------------------------------------------------
(* Resolution of bare names and marketplaces while requests time out.       *)

MaxInstalled == 1    \* installs stop once the registry holds this many plugins

ResolveNext ==
    \/ \E source \in {"foo", "foo/", "org", "acme", "nobody", "acme/nested"},
          net \in NetStates \cup {"repos", "orgs", "users", "contents"},
          git_ok \in BOOLEAN :
            /\ Len(_installed) < MaxInstalled
            /\ Install(source, "", net, git_ok)
    \/ \E url \in {"org/registry", "github.com/org/registry.git",
                    "https://github.com/org/registry.git/"},
          net \in NetStates \cup {"raw"} : AddMarketplace(url, net)
    \/ \E url \in {"org/registry", "github.com/org/registry.git",
                    "https://github.com/org/registry.git/"} : RemoveMarketplace(url)

ResolveSpec == Init /\ [][ResolveNext]_vars

-----------------------------------------------------------------------------
(* Two managers over one home directory.  Nothing in PluginManager locks    *)
(* the file or a checkout: each instance reads plugins.json once, at        *)
(* construction, and writes its whole memory on every mutation.  A git      *)
(* command blocks its caller in subprocess.run (lines 508-524), so the      *)
(* overlap is between threads or processes: while the command of one        *)
(* manager runs, the other makes its calls.                                 *)

\* PluginManager() in the second process: lines 51-68
PeerNew ==
    /\ peer = None
    /\ peer' = [_installed |-> _load_config(config_file).installed,
                _marketplaces |-> _load_config(config_file).marketplaces,
                running |-> None]
    /\ UNCHANGED <<registry, store, last>>

\* install(source) in the second process, in two steps: lines 157-168 start the
\* git command on the directory as it is found, lines 171-189 follow once
\* the command has ended.  A clone that finds the directory made by the other
\* manager in the meantime exits non-zero, as git does for a destination that
\* is not empty.
PeerInstall(source, git_ok) ==
    /\ "running" \in DOMAIN peer
    /\ IF peer.running = None
       THEN LET repo == _normalize_repo(source)
                plugin_name == LastSegment(repo)
            IN  /\ peer' = [peer EXCEPT !.running =
                                IF plugin_name \in DOMAIN plugins_dir
                                THEN _git_pull(plugins_dir, plugin_name, git_ok)
                                ELSE _git_clone(repo, plugin_name, git_ok)]
                /\ UNCHANGED <<registry, store, last>>
       ELSE IF \/ Raises(peer.running)
               \/ (peer.running.cmd = "clone --depth 1")
                      = (peer.running.dir \in DOMAIN plugins_dir)
       THEN /\ peer' = [peer EXCEPT !.running = None]
            /\ UNCHANGED <<registry, store, last>>
       ELSE LET git == peer.running
                checkout == CheckoutAfter(plugins_dir, git)
                plugin == PluginOf(checkout.origin, git.dir, TreeOf(checkout))
            IN  /\ plugins_dir' = PutDir(plugins_dir, git.dir, checkout)
                /\ peer' = [peer EXCEPT !._installed = Upsert(peer._installed, plugin),
                                        !.running = None]
                /\ config_file' = _save_config(peer'._installed, peer._marketplaces)
                /\ command_files' = _install_commands(command_files, plugin, TreeOf(checkout))
                /\ UNCHANGED <<registry, _installed, _marketplaces, last>>

ConcurrentNext ==
    \/ \E source \in {"org/plugin", "https://github.com/org/foo-plugin.git"},
          git_ok \in BOOLEAN : Install(source, "", "up", git_ok)
    \/ \E name \in {"foo", "bar"} : Disable(name)
    \/ PeerNew
    \/ \E source \in {"org/plugin", "https://github.com/org/foo-plugin.git"},
          git_ok \in BOOLEAN : PeerInstall(source, git_ok)

ConcurrentSpec == Init /\ [][ConcurrentNext]_vars

-----------------------------------------------------------------------------
(* The alias map of the store, asked for between installs, uninstalls,      *)
(* enables and disables; org/empty installs as a plugin without a manifest. *)

GetPluginCommands ==
    /\ last' = Call("get_plugin_commands", None, get_plugin_commands(_installed))
    /\ UNCHANGED <<registry, store, peer>>

CommandsNext ==
    \/ \E source \in {"https://github.com/org/foo-plugin.git", "org/plugin", "org/empty"},
          git_ok \in BOOLEAN : Install(source, "", "up", git_ok)
    \/ \E name \in {"foo", "bar", "empty"} : Uninstall(name, "ok")
    \/ \E name \in {"foo", "bar", "empty"} : Enable(name)
    \/ \E name \in {"foo", "bar", "empty"} : Disable(name)
    \/ GetPluginCommands

CommandsSpec == Init /\ [][CommandsNext]_vars

-----------------------------------------------------------------------------
(* Installs and uninstalls over checkouts that rmtree may leave half        *)
(* deleted.                                                                *)

\* the sources of foo and bar; the names are the manifest names and the
\* directory names install falls back to when a checkout has lost its manifest
RemovalNext ==
    \/ \E source \in {"org/plugin", "https://github.com/org/foo-plugin.git"},
          git_ok \in BOOLEAN : Install(source, "", "up", git_ok)
    \/ \E name \in {"foo", "bar", "plugin", "foo-plugin"}, rm \in RmOutcomes :
          Uninstall(name, rm)

RemovalSpec == Init /\ [][RemovalNext]_vars

-----------------------------------------------------------------------------
(* The registry rebuilt from the store: after a plugin command the          *)
(* application hands the commands of the enabled plugins, in the order of   *)
(* _installed, to set_plugin_commands.                                     *)

RegistryCommandOf(pair) ==
    PluginCommand(pair.cmd.name, pair.plugin.name, pair.cmd.description,
                  pair.cmd.prompt_file)

RegistryCommands(installed) == MapSeq(EnabledCommands(installed), RegistryCommandOf)

Refresh ==
    /\ _plugin_commands' =
          set_plugin_commands(_plugin_commands, _alias_map, RegistryCommands(_installed))
    /\ last' = Call("refresh", None, None)
    /\ UNCHANGED <<commands, _alias_map, store, peer>>

AliasArgs == {<<"https://github.com/org/foo-plugin.git", "">>, <<"org/plugin", "">>}

AliasNames == {"foo", "bar"}

AliasInit ==
    /\ RegistryNew(ExcludedChoices)
    /\ _plugin_commands = <<>>
    /\ StoreNew
    /\ last = Call("__init__", None, None)
    /\ peer = None

AliasNext ==
    \/ \E args \in AliasArgs, git_ok \in BOOLEAN : Install(args[1], args[2], "up", git_ok)
    \/ \E name \in AliasNames : Uninstall(name, "ok")
    \/ \E name \in AliasNames : Enable(name)
    \/ \E name \in AliasNames : Disable(name)
    \/ Refresh

AliasSpec == AliasInit /\ [][AliasNext]_vars

-----------------------------------------------------------------------------
(* _normalize_repo on decorated sources.                                   *)

MaxDecor == 3      \* the most suffix decorations put after a repository name

Decorations == UNION {[1..n -> {".git", "/", " "}] : n \in 0..MaxDecor}

RECURSIVE Concat(_)
Concat(parts) == IF parts = <<>> THEN "" ELSE Head(parts) \o Concat(Tail(parts))

NormSources ==
    {pre \o core \o Concat(post) :
        pre \in {"", "https://github.com/", "github.com/", " https://github.com/"},
        core \in {"a/b", "org"},
        post \in Decorations}

NormInit ==
    /\ RegistryNew({{}})
    /\ _plugin_commands = <<>>
    /\ StoreNew
    /\ peer = None
    /\ \E source \in NormSources : last = Call("source", source, None)

\* _normalize_repo on the drawn source, and again on what it returned, as
\* add_marketplace and remove_marketplace do with a stored coordinate
NormalizeRepo ==
    /\ last.op \in {"source", "_normalize_repo"}
    /\ LET source == IF last.op = "source" THEN last.arg ELSE last.ret
       IN  last' = Call("_normalize_repo", source, _normalize_repo(source))
    /\ UNCHANGED <<registry, store, peer>>

NormNext == NormalizeRepo

NormSpec == NormInit /\ [][NormNext]_vars


-----------------------------------------------------------------------------
(* Properties of the registry (RegistrySpec).                              *)

\* C1: after any sequence of register_plugin_command and set_plugin_commands
\* calls no key of the plugin alias table is a built-in alias; a command whose
\* short alias is a built-in alias is in the table under its qualified alias
\* only (and is there right after it is registered); and find_command on
\* every built-in alias returns the built-in command that owns the alias.
C1_BuiltinAliasesNeverShadowed ==
    /\ DictKeys(_plugin_commands) \cap DOMAIN _alias_map = {}
    /\ \A i \in DOMAIN _plugin_commands :
          short_alias(_plugin_commands[i].val) \in DOMAIN _alias_map
             => _plugin_commands[i].key = full_alias(_plugin_commands[i].val)
    /\ last.op = "register_plugin_command"
          => DictGet(_plugin_commands, full_alias(last.arg)) = last.arg
    /\ \A a \in DOMAIN _alias_map :
          /\ find_command(commands, _alias_map, a) # None
          /\ a \in find_command(commands, _alias_map, a).aliases

\* a plugin command named status sits in the table while /status is built in
C1_Witness ==
    /\ "/status" \in DOMAIN _alias_map
    /\ last.op = "register_plugin_command"
    /\ last.arg.name = "status"
    /\ DictHas(_plugin_commands, "/" \o last.arg.plugin_name \o ":status")

\* C2: after set_plugin_commands(S), whatever the table held before, every
\* entry of the plugin alias table is a command of S under its qualified or
\* its short alias.
C2_RebuildKeepsOnlyGivenCommands ==
    last.op = "set_plugin_commands" =>
        \A i \in DOMAIN _plugin_commands :
            \E j \in DOMAIN last.arg :
                /\ _plugin_commands[i].val = last.arg[j]
                /\ _plugin_commands[i].key \in {full_alias(last.arg[j]),
                                                short_alias(last.arg[j])}

\* a rebuild from one command of plugin b leaves just its two aliases
C2_Witness ==
    /\ last.op = "set_plugin_commands"
    /\ Len(last.arg) = 1
    /\ last.arg[1].plugin_name = "b"
    /\ DictKeys(_plugin_commands) = {"/b:c", "/c"}

\* C4: once a short alias maps to a command whose name a second plugin also
\* registers, every later register_plugin_command leaves that short alias on
\* the same command, and a command registered while its short alias is taken
\* is in the table under its qualified alias only.
C4_FirstRegistrantKeepsShortAlias ==
    [][last'.op = "register_plugin_command" =>
          /\ \A i \in DOMAIN _plugin_commands :
                (/\ _plugin_commands[i].key = short_alias(_plugin_commands[i].val)
                 /\ \E k \in DOMAIN _plugin_commands :
                       /\ _plugin_commands[k].val.name = _plugin_commands[i].val.name
                       /\ _plugin_commands[k].val.plugin_name
                             # _plugin_commands[i].val.plugin_name)
                => DictGet(_plugin_commands', _plugin_commands[i].key)
                      = _plugin_commands[i].val
          /\ (/\ DictHas(_plugin_commands, short_alias(last'.arg))
              /\ DictGet(_plugin_commands, short_alias(last'.arg)).plugin_name
                    # last'.arg.plugin_name)
                => \A i \in DOMAIN _plugin_commands' :
                      _plugin_commands'[i].val = last'.arg
                         => _plugin_commands'[i].key = full_alias(last'.arg)
      ]_vars

\* C5: after set_plugin_commands(S) the qualified alias of every command of S
\* is in the table and maps to that very command.
C5_QualifiedAliasesCollisionFree ==
    last.op = "set_plugin_commands" =>
        \A j \in DOMAIN last.arg :
            DictGet(_plugin_commands, full_alias(last.arg[j])) = last.arg[j]

-----------------------------------------------------------------------------
(* Properties of the lookup (LookupSpec).                                  *)

\* C6: find_plugin_command returns the entry of the plugin alias table whose
\* key is the first whitespace-delimited token of the input with its case
\* unchanged, and None when no key equals that token character for character.
C6_PluginLookupPreservesCase ==
    last.op = "find_plugin_command" =>
        LET parts == SplitMax1(last.arg)
            token == IF parts = <<>> THEN "" ELSE parts[1]
        IN  last.ret = DictGet(_plugin_commands, token)

\* C7: find_command returns the built-in command that owns the lowercased
\* first token, whatever follows it, and find_plugin_command the plugin
\* command registered under that lowercased token; an empty or blank input
\* and a token in neither index give None; no input is matched by both.
C7_LookupResolvesOneOrNone ==
    LET parts == SplitMax1(last.arg)
        token == IF parts = <<>> THEN "" ELSE Lower(parts[1])
    IN  /\ last.op = "find_command" =>
              last.ret = IF token \in DOMAIN _alias_map
                         THEN DictGet(commands, _alias_map[token]) ELSE None
        /\ last.op = "find_plugin_command" =>
              last.ret = DictGet(_plugin_commands, token)
        /\ last.op \in {"find_command", "find_plugin_command"} =>
              /\ token = "" => last.ret = None
              /\ ~(/\ find_command(commands, _alias_map, last.arg) # None
                   /\ find_plugin_command(_plugin_commands, last.arg) # None)

\* /STATUS with arguments resolves to the built-in status command while the
\* table holds plugin commands of the same name
C7_Witness ==
    /\ last.op = "find_command"
    /\ last.arg = " /STATUS arg"
    /\ last.ret # None
    /\ "/stats" \in last.ret.aliases
    /\ DictHas(_plugin_commands, "/a:status")

-----------------------------------------------------------------------------
(* Properties of _normalize_repo (NormSpec).                               *)

\* C8: _normalize_repo returns a/b for a/b behind any of the prefixes
\* https://github.com/ and github.com/ (or none) and followed by any of
\* .git, / and .git/ (or nothing).
C8_NormalizeStripsDecorations ==
    (/\ last.op = "_normalize_repo"
     /\ \E prefix \in {"", "https://github.com/", "github.com/"},
           suffix \in {"", ".git", "/", ".git/"} :
           last.arg = prefix \o "a/b" \o suffix)
        => last.ret = "a/b"

-----------------------------------------------------------------------------
(* Properties of the store (Spec).                                         *)

\* C9: a successful install into a directory that does not exist yet runs one
\* git clone --depth 1; a successful install that follows a successful install
\* of the same repository runs one git pull --ff-only and no clone; and after
\* either the registry and the registry file hold one entry of that name.
C9_ReinstallPullsAndKeepsOneEntry ==
    [][(/\ last'.op = "install"
        /\ last'.ran # <<>>
        /\ "name" \in DOMAIN last'.ret)
          => /\ Len(last'.ran) = 1
             /\ last'.ran[1].dir \notin DOMAIN plugins_dir
                   => last'.ran[1].cmd = "clone --depth 1"
             /\ (/\ last.op = "install"
                 /\ "name" \in DOMAIN last.ret
                 /\ last.ret.repository = last'.ret.repository)
                   => last'.ran[1].cmd = "pull --ff-only"
             /\ Cardinality({i \in DOMAIN _installed' :
                               _installed'[i].key = last'.ret.name}) = 1
             /\ Cardinality({i \in DOMAIN config_file'.installed :
                               config_file'.installed[i].name = last'.ret.name}) = 1
      ]_vars

\* the second of two installs has pulled, and bar is registered once
C9_Witness ==
    /\ last.op = "install"
    /\ last.ret = DictGet(_installed, "bar")
    /\ Len(last.ran) = 1
    /\ last.ran[1].cmd = "pull --ff-only"
    /\ last.ran[1].rc = 0
    /\ Len(_installed) = 1

\* C10: when the clone or the pull of an install exits non-zero the call
\* raises, and the installed plugins, the marketplaces and the registry file
\* are what they were before the call.
C10_FailedGitLeavesStateUntouched ==
    [][(/\ last'.op = "install"
        /\ last'.ran # <<>>
        /\ last'.ran[1].rc # 0)
          => /\ last'.ret = Error("CalledProcessError")
             /\ _installed' = _installed
             /\ _marketplaces' = _marketplaces
             /\ config_file' = config_file
      ]_vars

\* a pull has failed while the plugin of that directory is registered
C10_Witness ==
    /\ last.op = "install"
    /\ last.ret = Error("CalledProcessError")
    /\ last.ran[1].cmd = "pull --ff-only"
    /\ last.ran[1].rc # 0
    /\ DictHas(_installed, "bar")

\* C11: uninstall of a name that is not in the registry returns false, runs
\* no deletion, and leaves the registry, the marketplaces, the registry file
\* (absent stays absent) and the directories as they were.
C11_UninstallUnknownChangesNothing ==
    [][(/\ last'.op = "uninstall"
        /\ ~DictHas(_installed, last'.arg))
          => /\ last'.ran = <<>>
             /\ UNCHANGED <<_installed, _marketplaces, config_file, plugins_dir,
                            command_files>>
             /\ last'.ret = FALSE
      ]_vars

\* an unknown name was uninstalled while a plugin is registered
C11_Witness ==
    /\ last.op = "uninstall"
    /\ last.arg = "nope"
    /\ last.ret = FALSE
    /\ DictHas(_installed, "bar")
    /\ "installed" \in DOMAIN config_file

\* C14: enable / disable of a known name return true, set the enabled flag of
\* that plugin and nothing else in the registry, leave the marketplaces as
\* they were and write the registry to the file; for an unknown name they
\* return false and change neither the registry nor the file.
C14_ToggleSetsOnlyTheFlag ==
    [][last'.op \in {"enable", "disable"} =>
          IF DictHas(_installed, last'.arg)
          THEN /\ DOMAIN _installed' = DOMAIN _installed
               /\ \A i \in DOMAIN _installed :
                     _installed'[i] =
                         IF _installed[i].key = last'.arg
                         THEN [key |-> _installed[i].key,
                               val |-> [_installed[i].val EXCEPT
                                           !.enabled = (last'.op = "enable")]]
                         ELSE _installed[i]
               /\ _marketplaces' = _marketplaces
               /\ config_file' =
                     [installed |-> [i \in DOMAIN _installed' |-> _installed'[i].val],
                      marketplaces |->
                          [i \in DOMAIN _marketplaces |-> _marketplaces[i].val]]
               /\ last'.ret = TRUE
          ELSE /\ UNCHANGED <<_installed, _marketplaces, config_file>>
               /\ last'.ret = FALSE
      ]_vars

\* foo has been disabled while bar, installed too, is still enabled
C14_Witness ==
    /\ last.op = "disable"
    /\ last.arg = "foo"
    /\ DictHas(_installed, "foo")
    /\ ~DictGet(_installed, "foo").enabled
    /\ DictHas(_installed, "bar")
    /\ DictGet(_installed, "bar").enabled
    /\ _marketplaces # <<>>

\* C15: every operation that changes the registry or the marketplaces leaves
\* in the file the full list of installed plugins and the full list of
\* marketplaces, and after every operation a manager constructed from the
\* file holds the registry and the marketplaces of this one.
C15_FileHoldsTheRegistry ==
    [][/\ (_installed' # _installed \/ _marketplaces' # _marketplaces)
             => config_file' =
                   [installed |-> [i \in DOMAIN _installed' |-> _installed'[i].val],
                    marketplaces |->
                        [i \in DOMAIN _marketplaces' |-> _marketplaces'[i].val]]
       /\ _load_config(config_file').installed = _installed'
       /\ _load_config(config_file').marketplaces = _marketplaces'
      ]_vars

\* two plugins, one of them disabled, and a marketplace are in the file
C15_Witness ==
    /\ last.op \in {"disable", "add_marketplace"}
    /\ Len(_installed) = 2
    /\ \E i \in DOMAIN _installed : ~_installed[i].val.enabled
    /\ Len(_marketplaces) = 1
    /\ Len(config_file.installed) = 2
    /\ Len(config_file.marketplaces) = 1

-----------------------------------------------------------------------------
(* Properties of the registry rebuilt from the store (AliasSpec).          *)

\* C3: after the registry is rebuilt from the enabled plugins, every entry of
\* the plugin alias table belongs to an enabled plugin, no key is a built-in
\* alias, and the short alias of a command name that is neither a built-in
\* alias nor a qualified alias maps to the command of the first enabled
\* plugin that defines the name.
C3_RebuildDropsDisabledPlugins ==
    last.op = "refresh" =>
        LET pairs == EnabledCommands(_installed)
            short(j) == "/" \o pairs[j].cmd.name
        IN  /\ \A i \in DOMAIN _plugin_commands :
                  /\ DictHas(_installed, _plugin_commands[i].val.plugin_name)
                  /\ DictGet(_installed, _plugin_commands[i].val.plugin_name).enabled
            /\ DictKeys(_plugin_commands) \cap DOMAIN _alias_map = {}
            /\ \A j \in DOMAIN pairs :
                  (/\ short(j) \notin DOMAIN _alias_map
                   /\ \A k \in DOMAIN pairs :
                         /\ short(j) # full_alias(RegistryCommandOf(pairs[k]))
                         /\ k < j => pairs[k].cmd.name # pairs[j].cmd.name)
                     => DictGet(_plugin_commands, short(j)) = RegistryCommandOf(pairs[j])

\* foo, installed first, is disabled: /c has gone to bar, and /status, a
\* built-in alias, to nobody
C3_Witness ==
    /\ last.op = "refresh"
    /\ DictKeys(_installed) = {"foo", "bar"}
    /\ _installed[1].key = "foo"
    /\ ~DictGet(_installed, "foo").enabled
    /\ DictGet(_installed, "bar").enabled
    /\ "/status" \in DOMAIN _alias_map
    /\ ~DictHas(_plugin_commands, "/status")
    /\ DictHas(_plugin_commands, "/bar:status")
    /\ DictGet(_plugin_commands, "/c").plugin_name = "bar"

\* C3 as stated: with foo and bar both defining status, foo disabled and bar
\* enabled, the rebuilt table holds no alias of foo and maps /status to bar.
C3_SecondPluginClaimsStatus ==
    LET Defines(name) ==
            /\ DictHas(_installed, name)
            /\ DictGet(_installed, name).manifest # None
            /\ \E i \in DOMAIN DictGet(_installed, name).manifest.commands :
                  DictGet(_installed, name).manifest.commands[i].name = "status"
    IN  (/\ last.op = "refresh"
         /\ Defines("foo")
         /\ Defines("bar")
         /\ ~DictGet(_installed, "foo").enabled
         /\ DictGet(_installed, "bar").enabled)
            => /\ \A i \in DOMAIN _plugin_commands :
                     _plugin_commands[i].val.plugin_name # "foo"
               /\ DictHas(_plugin_commands, "/status")
               /\ DictGet(_plugin_commands, "/status").plugin_name = "bar"

-----------------------------------------------------------------------------
(* Properties of installs and uninstalls over half-deleted checkouts       *)
(* (RemovalSpec).                                                          *)

\* C12: when the deletion of the install directory fails in uninstall, the
\* plugin's entry stays in the registry and the registry file is not
\* rewritten.
C12_FailedDeletionKeepsEntry ==
    [][(/\ last'.op = "uninstall"
        /\ last'.ran # <<>>
        /\ last'.ran[1].rc # 0)
          => /\ DictHas(_installed', last'.arg)
             /\ _installed' = _installed
             /\ config_file' = config_file
      ]_vars

\* the deletion of bar's directory has failed part way and bar is registered
C12_Witness ==
    /\ last.op = "uninstall"
    /\ last.arg = "bar"
    /\ last.ran # <<>>
    /\ last.ran[1].rc # 0
    /\ ~plugins_dir[last.ran[1].dir].intact
    /\ DictHas(_installed, "bar")

\* C13: in every state reached by installs and uninstalls the install path
\* of every registered plugin exists on disk.
C13_NoEntryPointsAtDeletedPath ==
    \A i \in DOMAIN _installed :
        DirOf(_installed[i].val.install_path) \in DOMAIN plugins_dir

-----------------------------------------------------------------------------
(* Properties of PluginManager.__init__ (LoadSpec).                        *)

\* C16: a manager constructed over a file that is unreadable, is not JSON or
\* holds an installed-plugin or marketplace entry that fails validation has
\* no installed plugins and no marketplaces.
C16_CorruptFileLoadsEmpty ==
    (/\ last.op = "__init__"
     /\ \/ "bad_json" \in DOMAIN config_file
        \/ \E i \in DOMAIN Get(config_file, "installed", <<>>) :
              ~({"name", "repository", "install_path"}
                    \subseteq DOMAIN config_file.installed[i])
        \/ \E i \in DOMAIN Get(config_file, "marketplaces", <<>>) :
              ~({"name", "url"} \subseteq DOMAIN config_file.marketplaces[i]))
        => /\ _installed = <<>>
           /\ _marketplaces = <<>>

-----------------------------------------------------------------------------
(* Properties of the manifest parser (ParserSpec).                         *)

\* C17: the manifest of an installed checkout is built from the first of the
\* MANIFEST_PATHS that exists and parses, and stays the same whatever is put
\* in the place of a manifest file of lower priority.
C17_FirstMatchWins ==
    (last.op = "install" /\ "error" \notin DOMAIN last.ret) =>
        LET tree == GitHub[last.ret.repository]
            usable == {i \in DOMAIN MANIFEST_PATHS :
                          /\ MANIFEST_PATHS[i] \in DOMAIN tree.json
                          /\ tree.json[MANIFEST_PATHS[i]] \notin {BadJson, JsonArray}}
            With(j, file) ==
                Tree([p \in DOMAIN tree.json \cup {MANIFEST_PATHS[j]} |->
                         IF p = MANIFEST_PATHS[j] THEN file ELSE tree.json[p]],
                     tree.md)
        IN  \A i \in usable :
                (\A j \in usable : i <= j) =>
                    LET data == tree.json[MANIFEST_PATHS[i]]
                    IN  /\ last.ret.name = IF "extensions" \in DOMAIN data
                                           THEN data.extensions[1].name ELSE data.name
                        /\ last.ret.manifest.name = last.ret.name
                        /\ last.ret.manifest.version = "2.0"
                        /\ \A j \in (i + 1)..Len(MANIFEST_PATHS),
                              file \in {BadJson, JsonArray,
                                        [name |-> "intruder", version |-> "9.9",
                                         commands |-> << [name |-> "intruder"] >>]} :
                              _parse_manifest(With(j, file), DirOf(last.ret.install_path))
                                  = last.ret.manifest

\* .vibe-plugin/manifest.json and plugin.json both hold a manifest
C17_Witness ==
    /\ last.op = "install"
    /\ "error" \notin DOMAIN last.ret
    /\ LET json == GitHub[last.ret.repository].json
       IN  /\ {".vibe-plugin/manifest.json", "plugin.json"} \subseteq DOMAIN json
           /\ "name" \in DOMAIN json[".vibe-plugin/manifest.json"]
           /\ "name" \in DOMAIN json["plugin.json"]
    /\ last.ret.name = "vibe"

\* C18: an install whose checkout holds a manifest file that fails to parse
\* or to convert succeeds: the entry carries the manifest of the first file
\* that does parse, or else the inferred manifest, or else no manifest with
\* the last path segment as name, version "1.0.0" and an empty description.
C18_BadManifestNeverFailsInstall ==
    (/\ last.op = "install"
     /\ last.ran # <<>>
     /\ last.ran[1].rc = 0
     /\ \E p \in DOMAIN GitHub[last.ran[1].repo].json :
            GitHub[last.ran[1].repo].json[p] \in {BadJson, JsonArray}) =>
        LET tree == GitHub[last.ran[1].repo]
            dir == LastSegment(last.ran[1].repo)
            usable == {i \in DOMAIN MANIFEST_PATHS :
                          /\ MANIFEST_PATHS[i] \in DOMAIN tree.json
                          /\ tree.json[MANIFEST_PATHS[i]] \notin {BadJson, JsonArray}}
            inferred == _infer_manifest(tree, dir)
        IN  /\ "error" \notin DOMAIN last.ret
            /\ DictHas(_installed, last.ret.name)
            /\ DictGet(_installed, last.ret.name) = last.ret
            /\ \A i \in usable :
                   (\A j \in usable : i <= j) =>
                       last.ret.manifest = _convert_manifest(tree.json[MANIFEST_PATHS[i]], tree, dir)
            /\ usable = {} =>
                   /\ last.ret.manifest = inferred
                   /\ "none" \in DOMAIN inferred
                          => /\ last.ret.name = dir
                             /\ last.ret.version = "1.0.0"
                             /\ last.ret.description = ""
                   /\ "none" \notin DOMAIN inferred
                          => /\ last.ret.name = inferred.name
                             /\ last.ret.version = inferred.version

\* every manifest file of the checkout is bad and there is nothing to infer
\* from: the install falls back to the name of the directory
C18_Witness ==
    /\ last.op = "install"
    /\ last.ran # <<>>
    /\ last.ran[1].rc = 0
    /\ Cardinality(DOMAIN GitHub[last.ran[1].repo].json) >= 2
    /\ \A p \in DOMAIN GitHub[last.ran[1].repo].json :
            GitHub[last.ran[1].repo].json[p] \in {BadJson, JsonArray}
    /\ "error" \notin DOMAIN last.ret
    /\ last.ret.manifest = None
    /\ last.ret.name = LastSegment(last.ran[1].repo)

\* C19: in every manifest the parser produces no two commands and no two
\* agents have the same (name, prompt_file) pair, and the commands and the
\* agents are the named entries of the combined list (explicit entries, then
\* discovered ones), each pair at its first occurrence, in the order of that
\* list; entries without a name are dropped.
C19_FirstOfEveryNamedPairKept ==
    (/\ last.op = "install"
     /\ "error" \notin DOMAIN last.ret
     /\ "none" \notin DOMAIN last.ret.manifest) =>
        LET tree == GitHub[last.ret.repository]
            usable == {i \in DOMAIN MANIFEST_PATHS :
                          /\ MANIFEST_PATHS[i] \in DOMAIN tree.json
                          /\ tree.json[MANIFEST_PATHS[i]] \notin {BadJson, JsonArray}}
            data == tree.json[MANIFEST_PATHS[CHOOSE i \in usable : \A j \in usable : i <= j]]
            all_commands ==
                IF usable # {}
                THEN MapSeq(Get(data, "commands", <<>>), CommandOfJson)
                         \o MapSeq(MdUnder(tree, "commands"), CommandOfMd)
                ELSE MapSeq(MdUnder(tree, "commands") \o MdUnder(tree, "prompts")
                                \o MdAtRoot(tree), CommandOfMd)
            all_agents ==
                (IF usable # {} THEN MapSeq(Get(data, "agents", <<>>), AgentOfJson) ELSE <<>>)
                    \o MapSeq(MdUnder(tree, "agents"), AgentOfMd)
            Pair(e) == <<e.name, e.prompt_file>>
            NoTwoAlike(s) == \A i, j \in DOMAIN s : Pair(s[i]) = Pair(s[j]) => i = j
            \* s is what is left of all when the entries not in keep are struck out
            LeftOf(s, all, keep) ==
                /\ Len(s) = Cardinality(keep)
                /\ \A i \in keep : s[Cardinality({j \in keep : j <= i})] = all[i]
            Firsts(all) == {i \in DOMAIN all :
                               /\ all[i].name # ""
                               /\ \A j \in 1..(i - 1) : Pair(all[j]) # Pair(all[i])}
        IN  /\ NoTwoAlike(last.ret.manifest.commands)
            /\ NoTwoAlike(last.ret.manifest.agents)
            /\ LeftOf(last.ret.manifest.commands, all_commands, Firsts(all_commands))
            /\ LeftOf(last.ret.manifest.agents, all_agents, Firsts(all_agents))

\* an explicit command is listed twice, is discovered again under commands/
\* and shares its name with a command at another path
C19_Witness ==
    /\ last.op = "install"
    /\ "error" \notin DOMAIN last.ret
    /\ "none" \notin DOMAIN last.ret.manifest
    /\ LET json == GitHub[last.ret.repository].json
           md == GitHub[last.ret.repository].md
       IN  /\ \E p \in DOMAIN json :
                  /\ "commands" \in DOMAIN json[p]
                  /\ \E i, j \in DOMAIN json[p].commands :
                         /\ i < j
                         /\ CommandOfJson(json[p].commands[i]).name = "status"
                         /\ CommandOfJson(json[p].commands[j]).name = "status"
           /\ \E i \in DOMAIN md : md[i].path = "commands/status.md"
    /\ Len(SelectSeq(last.ret.manifest.commands, LAMBDA c : c.name = "status")) = 2
    /\ Len(last.ret.manifest.agents) = 1

\* C19 as stated: whenever several entries of the combined list have the
\* same (name, prompt_file) pair, exactly one entry with that pair is in the
\* manifest.
C19_OneOfEveryRepeatedPairKept ==
    (/\ last.op = "install"
     /\ "error" \notin DOMAIN last.ret
     /\ "none" \notin DOMAIN last.ret.manifest) =>
        LET tree == GitHub[last.ret.repository]
            usable == {i \in DOMAIN MANIFEST_PATHS :
                          /\ MANIFEST_PATHS[i] \in DOMAIN tree.json
                          /\ tree.json[MANIFEST_PATHS[i]] \notin {BadJson, JsonArray}}
            data == tree.json[MANIFEST_PATHS[CHOOSE i \in usable : \A j \in usable : i <= j]]
            all_commands ==
                IF usable # {}
                THEN MapSeq(Get(data, "commands", <<>>), CommandOfJson)
                         \o MapSeq(MdUnder(tree, "commands"), CommandOfMd)
                ELSE MapSeq(MdUnder(tree, "commands") \o MdUnder(tree, "prompts")
                                \o MdAtRoot(tree), CommandOfMd)
            Pair(e) == <<e.name, e.prompt_file>>
        IN  \A i, j \in DOMAIN all_commands :
                (i < j /\ Pair(all_commands[i]) = Pair(all_commands[j])) =>
                    Cardinality({k \in DOMAIN last.ret.manifest.commands :
                                    Pair(last.ret.manifest.commands[k])
                                        = Pair(all_commands[i])}) = 1

\* C20: inference returns no manifest exactly when the scan finds no command
\* and no agent.
C20_InferenceAbsentOnlyWhenNothingFound ==
    (/\ last.op = "install"
     /\ "error" \notin DOMAIN last.ret
     /\ \A p \in DOMAIN GitHub[last.ret.repository].json :
            GitHub[last.ret.repository].json[p] \in {BadJson, JsonArray}) =>
        LET tree == GitHub[last.ret.repository]
            found_commands == MdUnder(tree, "commands") \o MdUnder(tree, "prompts")
                                  \o MdAtRoot(tree)
            found_agents == MdUnder(tree, "agents")
        IN  /\ last.ret.manifest = _infer_manifest(tree, DirOf(last.ret.install_path))
            /\ last.ret.manifest = None <=> (found_commands = <<>> /\ found_agents = <<>>)

\* C21: no command and no agent that a scan discovers (commands/ during
\* conversion, commands/, prompts/ and the root during inference, agents/)
\* has a prompt file named readme.md, claude.md, agents.md or vibe.md in any
\* spelling of upper and lower case.
C21_SkippedFilesNeverDiscovered ==
    (/\ last.op = "install"
     /\ "error" \notin DOMAIN last.ret
     /\ "none" \notin DOMAIN last.ret.manifest) =>
        LET tree == GitHub[last.ret.repository]
            skipped == {tree.md[i].path : i \in {j \in DOMAIN tree.md :
                           Lower(LastSegment(tree.md[j].path))
                               \in {"readme.md", "claude.md", "agents.md", "vibe.md"}}}
            Files(s) == {s[i].path : i \in DOMAIN s}
            PromptFiles(s) == {s[i].prompt_file : i \in DOMAIN s}
        IN  /\ PromptFiles(last.ret.manifest.commands) \cap skipped = {}
            /\ PromptFiles(last.ret.manifest.agents) \cap skipped = {}
            /\ \A dir \in {"commands", "prompts", "agents"} :
                   Files(MdUnder(tree, dir)) \cap skipped = {}
            /\ Files(MdAtRoot(tree)) \cap skipped = {}
            /\ PromptFiles(_discover_agents(tree)) \cap skipped = {}

\* the checkout has such files under commands/, prompts/, agents/ and at the
\* root, next to files that do become commands and agents
C21_Witness ==
    /\ last.op = "install"
    /\ "error" \notin DOMAIN last.ret
    /\ "none" \notin DOMAIN last.ret.manifest
    /\ LET paths == {GitHub[last.ret.repository].md[i].path :
                        i \in DOMAIN GitHub[last.ret.repository].md}
       IN  {"commands/CLAUDE.md", "prompts/Vibe.md", "agents/Agents.md", "README.md"}
               \subseteq paths
    /\ DOMAIN GitHub[last.ret.repository].json = {}
    /\ Len(last.ret.manifest.commands) = 3
    /\ Len(last.ret.manifest.agents) = 1

-----------------------------------------------------------------------------
(* Properties of the resolution of bare names and marketplaces             *)
(* (ResolveSpec).                                                          *)

\* C22: an install of a source whose normalized form holds no "/" takes the
\* coordinate from the marketplace that lists the name, else from the first
\* naming pattern whose repository exists, else from the repository listing.
C22_BareNameResolvesMarketplaceFirst ==
    (last.op = "install" /\ ~Contains(_normalize_repo(last.arg[1]), "/")) =>
        LET name == _normalize_repo(last.arg[1])
            listed == _find_in_marketplaces(_marketplaces, name)
            by_pattern == _try_common_plugin_patterns(last.net, name)
            expected == IF listed # None THEN _normalize_repo(listed.repository)
                        ELSE IF by_pattern # "" THEN by_pattern
                        ELSE _search_org_repos_for_plugin(last.net, name)
        IN  IF expected = "" THEN last.ran = <<>>
            ELSE /\ last.ran # <<>>
                 /\ last.ran[1].dir = LastSegment(expected)
                 /\ "error" \notin DOMAIN last.ret => last.ret.repository = expected

\* C23: an install of a bare name that no marketplace lists, no naming
\* pattern matches and no listing yields raises ValueError with the name in
\* the message as the organization tried, runs no git command and leaves the
\* registry, the marketplaces, the file and the checkouts as they were.
C23_UnresolvableSourceChangesNothing ==
    [][(/\ last'.op = "install"
        /\ last' # last
        /\ ~Contains(_normalize_repo(last'.arg[1]), "/")
        /\ _find_in_marketplaces(_marketplaces, last'.arg[1]) = None
        /\ _try_common_plugin_patterns(last'.net, _normalize_repo(last'.arg[1])) = ""
        /\ _search_org_repos_for_plugin(last'.net, _normalize_repo(last'.arg[1])) = "")
          => /\ "error" \in DOMAIN last'.ret
             /\ last'.ret.error = "ValueError"
             /\ ContainsStr(last'.ret.message,
                            "in the '" \o _normalize_repo(last'.arg[1])
                                \o "' GitHub organization")
             /\ last'.ran = <<>>
             /\ UNCHANGED store
      ]_vars

\* the unknown name is tried while a marketplace is registered
C23_Witness ==
    /\ last.op = "install"
    /\ last.arg[1] = "nobody"
    /\ last.net = "up"
    /\ "error" \in DOMAIN last.ret
    /\ last.ret.error = "ValueError"
    /\ _marketplaces # <<>>
    /\ config_file.marketplaces # <<>>

\* C24: an install under a network where the requests of one kind time out
\* ends as it would if those requests had answered "not found": the error is
\* not the timeout, and the coordinate is the one the remaining probes give.
C24_ProbeTimeoutActsAsNotFound ==
    (/\ last.op = "install"
     /\ last.net \in {"repos", "orgs", "users", "contents"}
     /\ ~Contains(last.arg[1], "/")
     /\ _find_in_marketplaces(_marketplaces, last.arg[1]) = None) =>
        LET name == _normalize_repo(last.arg[1])
            by_pattern == IF last.net = "repos" THEN ""
                          ELSE _try_common_plugin_patterns("up", name)
            listing ==
                IF last.net = "orgs"
                THEN (IF name \in DOMAIN UserRepos THEN UserRepos[name] ELSE <<>>)
                ELSE IF last.net = "users"
                THEN (IF name \in DOMAIN OrgRepos THEN OrgRepos[name] ELSE <<>>)
                ELSE _fetch_org_repos(name)
            by_listing == IF last.net = "contents" THEN ""
                          ELSE _find_plugin_in_repos("up", listing)
            expected == IF by_pattern # "" THEN by_pattern ELSE by_listing
        IN  /\ "error" \in DOMAIN last.ret
                  => last.ret.error \in {"ValueError", "CalledProcessError"}
            /\ IF expected = "" THEN last.ran = <<>>
               ELSE /\ last.ran # <<>>
                    /\ last.ran[1].dir = LastSegment(expected)

\* C25: an install that fails raises ValueError (the source does not resolve)
\* or CalledProcessError (git failed), and a failed install has recorded
\* nothing: the registry and the file are as they were before the call.
C25_InstallFailsOnlyBeforeRecording ==
    [][(/\ last'.op = "install"
        /\ last' # last
        /\ "error" \in DOMAIN last'.ret)
          => /\ last'.ret.error \in {"ValueError", "CalledProcessError"}
             /\ _installed' = _installed
             /\ config_file' = config_file
      ]_vars

\* C26: add_marketplace returns a marketplace whatever the fetches do: the
\* one parsed from the first descriptor url that fetches and parses, or one
\* named after the repository with no plugins; it is stored under
\* https://github.com/{normalized url}, once, next to the entries of the
\* other keys, and the file holds the marketplaces after the call.
C26_AddMarketplaceNeverFails ==
    [][(last'.op = "add_marketplace" /\ last' # last) =>
          LET repo == _normalize_repo(last'.arg)
              key == "https://github.com/" \o repo
              files == IF last'.net \in {"down", "raw"} \/ repo \notin DOMAIN RawFiles
                       THEN NoJson ELSE RawFiles[repo]
              usable == {i \in DOMAIN raw_urls :
                            /\ raw_urls[i] \in DOMAIN files
                            /\ files[raw_urls[i]] \notin {BadJson, JsonArray}}
          IN  /\ "error" \notin DOMAIN last'.ret
              /\ last'.ret.url = key
              /\ usable = {} => /\ last'.ret.plugins = <<>>
                                /\ last'.ret.name = LastSegment(repo)
              /\ \A i \in usable :
                     (\A j \in usable : i <= j) =>
                         /\ last'.ret.name = files[raw_urls[i]].name
                         /\ last'.ret =
                                [_parse_marketplace_data(repo, files[raw_urls[i]])
                                     EXCEPT !.url = key]
              /\ {i \in DOMAIN _marketplaces' : _marketplaces'[i].key = key} # {}
              /\ \A i, j \in DOMAIN _marketplaces' :
                     _marketplaces'[i].key = _marketplaces'[j].key => i = j
              /\ \A i \in DOMAIN _marketplaces' :
                     IF _marketplaces'[i].key = key
                     THEN _marketplaces'[i].val = last'.ret
                     ELSE \E j \in DOMAIN _marketplaces : _marketplaces[j] = _marketplaces'[i]
              /\ Len(_marketplaces') = Cardinality(DictKeys(_marketplaces) \cup {key})
              /\ config_file'.marketplaces =
                     [i \in DOMAIN _marketplaces' |-> _marketplaces'[i].val]
              /\ _installed' = _installed
      ]_vars

\* registry.json does not parse and marketplace.json does: the marketplace
\* lists foo, and it is stored under its key next to another marketplace
C26_Witness ==
    /\ last.op = "add_marketplace"
    /\ last.net = "up"
    /\ last.arg = "org/registry"
    /\ Len(last.ret.plugins) = 1
    /\ last.ret.plugins[1].name = "foo"
    /\ Len(_marketplaces) = 2
    /\ _marketplaces[1].key = "https://github.com/org/registry"
    /\ _marketplaces[1].val = last.ret

\* C27: remove_marketplace returns true exactly when the repository the url
\* spells is registered, whatever spelling registered it (every url of this
\* specification spells org/registry); afterwards it is not registered, the
\* installed plugins are unchanged and the file is rewritten only on true.
C27_SpellingsAddressOneEntry ==
    [][(last'.op = "remove_marketplace" /\ last' # last) =>
          /\ last'.ret <=> _marketplaces # <<>>
          /\ _marketplaces' = <<>>
          /\ _installed' = _installed
          /\ config_file' # config_file => last'.ret
      ]_vars

\* C28: with a registered marketplace that lists foo with the repository
\* org/foo-plugin, install("foo") runs git on org/foo-plugin and nothing
\* else, whatever the organization probes would answer: it clones that
\* repository into plugins/foo-plugin, or pulls there when the directory
\* already exists.
C28_MarketplaceNameResolvesToItsRepository ==
    [][(/\ last' # last
        /\ last'.op = "install"
        /\ last'.arg[1] = "foo"
        /\ \E i \in DOMAIN _marketplaces :
               \E j \in DOMAIN _marketplaces[i].val.plugins :
                   /\ _marketplaces[i].val.plugins[j].name = "foo"
                   /\ _marketplaces[i].val.plugins[j].repository = "org/foo-plugin") =>
           /\ last'.ran # <<>>
           /\ last'.ran =
                  << IF "foo-plugin" \in DOMAIN plugins_dir
                     THEN GitCommand("pull --ff-only", "", "foo-plugin", last'.ran[1].rc)
                     ELSE GitCommand("clone --depth 1", "org/foo-plugin", "foo-plugin",
                                     last'.ran[1].rc) >>
           /\ last'.ran[1].rc \in {0, 1, 128}
           /\ "error" \in DOMAIN last'.ret <=> last'.ran[1].rc # 0
           /\ "error" \notin DOMAIN last'.ret =>
                  /\ last'.ret.repository = "org/foo-plugin"
                  /\ last'.ret.install_path = "plugins/foo-plugin"
      ]_vars

\* the install went through the marketplace while every request failed
C28_Witness ==
    /\ last.op = "install"
    /\ last.arg[1] = "foo"
    /\ last.net = "down"
    /\ _marketplaces # <<>>
    /\ "error" \notin DOMAIN last.ret
    /\ last.ret.repository = "org/foo-plugin"
    /\ "foo-plugin" \in DOMAIN plugins_dir

-----------------------------------------------------------------------------
(* Properties of two managers over one home directory (ConcurrentSpec)      *)

\* C29: at most one mutation is in flight per install path: while the git
\* command of one install on a plugin directory is in progress, no other
\* install call runs a git clone or git pull on that same directory.
C29_OneMutationInFlightPerPath ==
    [][(/\ "running" \in DOMAIN peer
        /\ peer.running # None
        /\ peer' = peer
        /\ last' # last
        /\ last'.op = "install"
        /\ last'.ran # <<>>)
       => last'.ran[1].dir # peer.running.dir]_vars

\* C30: no update is lost: once every call has completed, each plugin that
\* a successful install of either manager recorded is in the persisted
\* registry.
C30_NoLostUpdate ==
    ("running" \in DOMAIN peer /\ peer.running = None)
        => (DictKeys(_installed) \cup DictKeys(peer._installed))
              \subseteq DictKeys(_load_config(config_file).installed)

-----------------------------------------------------------------------------
(* Properties of the alias map of the store (CommandsSpec)                  *)

\* C31: the alias map get_plugin_commands returns holds only commands of
\* plugins that are installed, enabled and have a manifest, each under its
\* qualified or its short alias, and it holds the qualified alias of every
\* command of every such plugin.
C31_AliasMapOfEnabledPluginsOnly ==
    last.op = "get_plugin_commands" =>
        /\ \A i \in DOMAIN last.ret :
              LET plugin == last.ret[i].val[1]
                  cmd == last.ret[i].val[2]
              IN  /\ DictHas(_installed, plugin.name)
                  /\ DictGet(_installed, plugin.name) = plugin
                  /\ plugin.enabled
                  /\ plugin.manifest # None
                  /\ \E j \in DOMAIN plugin.manifest.commands :
                         plugin.manifest.commands[j] = cmd
                  /\ last.ret[i].key \in {"/" \o plugin.name \o ":" \o cmd.name,
                                          "/" \o cmd.name}
        /\ \A k \in DOMAIN _installed :
              LET plugin == _installed[k].val
              IN  (plugin.enabled /\ plugin.manifest # None) =>
                      \A j \in DOMAIN plugin.manifest.commands :
                          LET alias == "/" \o plugin.name \o ":"
                                           \o plugin.manifest.commands[j].name
                          IN  /\ DictHas(last.ret, alias)
                              /\ DictGet(last.ret, alias)[1] = plugin
                              /\ DictGet(last.ret, alias)[2].name =
                                     plugin.manifest.commands[j].name

\* the map was asked for with an enabled plugin, a disabled plugin and a
\* plugin without a manifest installed
C31_Witness ==
    /\ last.op = "get_plugin_commands"
    /\ last.ret # <<>>
    /\ \E k \in DOMAIN _installed : ~_installed[k].val.enabled
    /\ \E k \in DOMAIN _installed :
           _installed[k].val.enabled /\ _installed[k].val.manifest = None

-----------------------------------------------------------------------------
(* Further properties of the resolution of bare names (ResolveSpec)         *)

\* C32: when no repository name pattern matches, the listing stage takes the
\* organization listing, and the user listing whenever the organization
\* request fails, by a non-success status or by a timeout; the install gives
\* up with no git command only when the listing it ends with has no candidate.
C32_UserListingFollowsFailedOrgListing ==
    (/\ last.op = "install"
     /\ last.net \in {"up", "orgs"}
     /\ ~Contains(last.arg[1], "/")
     /\ _find_in_marketplaces(_marketplaces, last.arg[1]) = None
     /\ _try_common_plugin_patterns("up", _normalize_repo(last.arg[1])) = "") =>
        LET name == _normalize_repo(last.arg[1])
            as_user == IF name \in DOMAIN UserRepos THEN UserRepos[name] ELSE <<>>
            listing == IF last.net = "up" /\ name \in DOMAIN OrgRepos
                       THEN OrgRepos[name] ELSE as_user
            candidate == _find_plugin_in_repos("up", listing)
        IN  IF candidate = "" THEN last.ran = <<>>
            ELSE /\ last.ran # <<>>
                 /\ last.ran[1].dir = LastSegment(candidate)

-----------------------------------------------------------------------------
(* Properties of the help listing and the completion list (LookupSpec)      *)

\* C33: the help listing holds every registered plugin command exactly once,
\* as a line with its qualified alias and its description, below the plugin
\* section heading; two plugins with a command of one name both have theirs.
C33_HelpListsEveryPluginCommandOnce ==
    last.op = "get_help_text" =>
        LET lines == last.ret
            Line(cmd) == "- '/" \o cmd.plugin_name \o ":" \o cmd.name \o "': "
                             \o cmd.description
            heads == {i \in DOMAIN lines : lines[i] = "### Plugin Commands"}
        IN  \A k \in DOMAIN _plugin_commands :
                LET at == {i \in DOMAIN lines : lines[i] = Line(_plugin_commands[k].val)}
                IN  /\ Cardinality(at) = 1
                    /\ \A i \in at : \E h \in heads : h < i

\* C34: completion_entries lists no alias twice, lists every built-in alias
\* and every alias of the plugin table, and every listed alias, typed as it
\* is, resolves through find_command or find_plugin_command to a command
\* with the description of the entry.
C34_CompletionEntriesResolve ==
    last.op = "completion_entries" =>
        LET entries == last.ret
        IN  /\ \A i, j \in DOMAIN entries : entries[i][1] = entries[j][1] => i = j
            /\ \A alias \in DOMAIN _alias_map \cup DictKeys(_plugin_commands) :
                   \E i \in DOMAIN entries : entries[i][1] = alias
            /\ \A i \in DOMAIN entries :
                   LET builtin == find_command(commands, _alias_map, entries[i][1])
                       plugin == find_plugin_command(_plugin_commands, entries[i][1])
                   IN  \/ /\ builtin # None
                          /\ builtin.description = entries[i][2]
                       \/ /\ plugin # None
                          /\ plugin.description = entries[i][2]

\* C35: with the built-ins of an exclusion list popped, no alias of an
\* excluded built-in is in the alias index and find_command gives None for
\* it; every other built-in is kept as it is with all its aliases, each
\* mapped to that one command; a name in the list that is no built-in
\* leaves no trace.
C35_ExcludedBuiltinsLeaveNoAlias ==
    LET excluded == DictKeys(BuiltinCommands) \ DictKeys(commands)
        parts == SplitMax1(last.arg)
        token == IF parts = <<>> THEN "" ELSE Lower(parts[1])
    IN  /\ DictKeys(commands) \subseteq DictKeys(BuiltinCommands)
        /\ \A i \in DOMAIN BuiltinCommands :
              LET builtin == BuiltinCommands[i]
              IN  \A alias \in builtin.val.aliases :
                      IF builtin.key \in excluded
                      THEN /\ alias \notin DOMAIN _alias_map
                           /\ find_command(commands, _alias_map, alias) = None
                           /\ (last.op = "find_command" /\ token = alias)
                                  => last.ret = None
                      ELSE /\ alias \in DOMAIN _alias_map
                           /\ _alias_map[alias] = builtin.key
                           /\ DictGet(commands, builtin.key) = builtin.val
                           /\ find_command(commands, _alias_map, alias) = builtin.val
                           /\ (last.op = "find_command" /\ token = alias)
                                  => last.ret = builtin.val
        /\ DOMAIN _alias_map \subseteq
              UNION {commands[i].val.aliases : i \in DOMAIN commands}

\* status was excluded together with an unknown name: /STATUS finds no
\* built-in while /help is still there
C35_Witness ==
    /\ last.op = "find_command"
    /\ last.arg = " /STATUS arg"
    /\ last.ret = None
    /\ ~DictHas(commands, "status")
    /\ DictHas(commands, "help")
    /\ "/h" \in DOMAIN _alias_map

-----------------------------------------------------------------------------
(* Further properties of the alias map of the store (CommandsSpec)          *)

\* C36: the owner of every alias in the map get_plugin_commands returns is
\* the same for every order in which the installed plugins can stand in the
\* registry.
C36_AliasOwnerIndependentOfOrder ==
    last.op = "get_plugin_commands" =>
        LET n == Len(_installed)
            orders == {f \in [1..n -> 1..n] : \A i, j \in 1..n : f[i] = f[j] => i = j}
        IN  \A order \in orders :
                LET other == get_plugin_commands([i \in 1..n |-> _installed[order[i]]])
                IN  \A alias \in DictKeys(last.ret) :
                        /\ DictHas(other, alias)
                        /\ DictGet(other, alias)[1].name = DictGet(last.ret, alias)[1].name

-----------------------------------------------------------------------------
(* Further properties of _normalize_repo (NormSpec)                         *)

\* C37: _normalize_repo is idempotent: applied to what it returned, it
\* returns the same string.
C37_NormalizeIsIdempotent ==
    [][(last.op = "_normalize_repo" /\ last'.op = "_normalize_repo")
          => last'.ret = last.ret]_vars

-----------------------------------------------------------------------------
(* Further properties of the registry rebuilt from the store (AliasSpec)    *)

\* C38: once the commands of the enabled plugins have been fed, in the order
\* of the registry, to set_plugin_commands, the plugin alias table and the
\* map of get_plugin_commands hold the same aliases outside the built-in
\* aliases, each for the same command of the same plugin.
C38_AliasBuildersAgree ==
    last.op = "refresh" =>
        LET by_manager == get_plugin_commands(_installed)
        IN  \A alias \in (DictKeys(by_manager) \cup DictKeys(_plugin_commands))
                            \ DOMAIN _alias_map :
                /\ DictHas(by_manager, alias)
                /\ DictHas(_plugin_commands, alias)
                /\ DictGet(_plugin_commands, alias).plugin_name
                       = DictGet(by_manager, alias)[1].name
                /\ DictGet(_plugin_commands, alias).name
                       = DictGet(by_manager, alias)[2].name
                /\ DictGet(_plugin_commands, alias).prompt_file
                       = DictGet(by_manager, alias)[2].prompt_file

\* two enabled plugins share status and c, status is no built-in of this
\* registry, and the first plugin of the registry holds both short aliases
C38_Witness ==
    /\ last.op = "refresh"
    /\ Len(_installed) = 2
    /\ \A i \in DOMAIN _installed : _installed[i].val.enabled
    /\ "/status" \notin DOMAIN _alias_map
    /\ DictHas(_plugin_commands, "/status")
    /\ DictGet(_plugin_commands, "/status").plugin_name = _installed[1].key
    /\ DictGet(_plugin_commands, "/c").plugin_name = _installed[1].key
    /\ DictHas(_plugin_commands, "/" \o _installed[2].key \o ":c")

====
